---------------------------- MODULE Spec2Model ----------------------------
(***************************************************************************)
(* ttxd: DVB Teletext acquisition pipeline (src/ttxd.c).                   *)
(*                                                                         *)
(*   supervisor (main) -> curl_write_cb (TS framer) -> process_ts_packet   *)
(*   (TS filter + PES reassembler) -> dispatch_pes -> feed_pes_data        *)
(*                                                                         *)
(* Octets are naturals 0..255, a TS packet is a sequence of 188 octets.    *)
(* g_carry is the whole 188-octet array (stale octets are kept, as in C);  *)
(* g_pes is modelled by its valid prefix g_pes[0 .. g_pes_len): the code   *)
(* never reads g_pes at or beyond g_pes_len.                               *)
(***************************************************************************)
EXTENDS Integers, Sequences, FiniteSets, TLC

VARIABLES
    pc,            \* position of main()
    exit_code,     \* value returned by main(), -1 while it runs
    g_running,     \* volatile flag cleared by signal_handler
    g_pid,         \* configured Teletext PID
    g_demux,       \* libzvbi demux instance (0 = NULL)
    g_dec,         \* libzvbi decoder instance (0 = NULL)
    g_carry,       \* TS alignment carry buffer, 188 octets
    g_carry_len,   \* octets of g_carry in use
    g_pes,         \* PES accumulator, valid prefix
    g_pes_len,     \* octets of g_pes in use
    g_pes_target,  \* expected total PES size, 0 = unbounded
    curl,          \* state of the transfer inside curl_easy_perform
    wire,          \* octets of a TS packet sent by the tuner, not yet delivered
    conn,          \* number of the current connection attempt
    sent,          \* this connection: chunks and packets sent, HTTP status, redirects
    lib,           \* libzvbi instances: [next, alive, fed]
    gh,            \* observation of the pipeline (history variables)
    trace,         \* whether gh.rx and gh.emitted keep the connection's history
    args,          \* the invocation: [argc, pid, port] as main reads it
    g_udp_fd,      \* UDP socket descriptor, -1 before socket()
    g_dest,        \* destination port of the datagrams, 0 before it is set
    udp,           \* the UDP socket's record: page events, sendto calls, last datagram
    feed           \* feed_pes_data: position of its loop, p - data, rem, last demux call

vars == <<pc, exit_code, g_running, g_pid, g_demux, g_dec, g_carry, g_carry_len,
          g_pes, g_pes_len, g_pes_target, curl, wire, conn, sent, lib, gh, trace,
          args, g_udp_fd, g_dest, udp, feed>>

---------------------------------------------------------------------------
(* Program constants *)

TS_PACKET_SIZE == 188
TS_SYNC_BYTE == 71
MAX_PES_SIZE == 65548

(* Bounds of the explored runs *)

MaxConn == 2        \* connection attempts per run
MaxSingles == 2     \* single-packet chunks per connection (Spec)
MaxBursts == 2      \* multi-packet chunks per connection (Spec)
MaxFramerPkts == 2  \* TS packets the tuner sends per connection (SpecFramer)
MaxChunks == 3      \* chunks curl delivers per connection (SpecFramer)
MaxEvents == 2      \* page events per run (SpecPage)
MaxRedirects == 1   \* redirects curl follows per connection attempt
MaxFeedLen == 4     \* octets of a PES data payload (SpecFeed)
MaxFeedCalls == 4   \* demux calls per PES data payload (SpecFeed)

TeletextPid == 409
UsualPort == 5555

---------------------------------------------------------------------------
(* Octet sequences *)

Min(a, b) == IF a < b THEN a ELSE b

Fill(n, v) == [i \in 1..n |-> v]

\* n octets of payload data, all neighbours different, none 0
Data(n, seed) == [i \in 1..n |-> 1 + ((i * 7 + seed) % 251)]

\* s cut or padded with 0xFF to exactly n octets
Fit(s, n) == [i \in 1..n |-> IF i <= Len(s) THEN s[i] ELSE 255]

\* k copies of the sequence s
Rep(s, k) == [i \in 1..(k * Len(s)) |-> s[((i - 1) % Len(s)) + 1]]


---------------------------------------------------------------------------
(* TS packets the tuner can send.  Header layout (ISO 13818-1):            *)
(*   octet 0 sync, octet 1 = TEI<<7 | PUSI<<6 | PID>>8, octet 2 = PID&255, *)
(*   octet 3 = adaptation<<5 | payload<<4, octet 4 = adaptation length.    *)

TsHeader(sync, tei, pusi, pid, adapt, pay) ==
    <<sync, tei * 128 + pusi * 64 + (pid \div 256), pid % 256, adapt * 32 + pay * 16>>

\* a packet without adaptation field: 184 octets of payload
TsPlain(sync, tei, pusi, pid, pay, payload) ==
    Fit(TsHeader(sync, tei, pusi, pid, 0, pay) \o payload, TS_PACKET_SIZE)

\* a packet whose adaptation field (aflen stuffing octets) precedes the payload
TsAdapt(pusi, pid, pay, aflen, payload) ==
    Fit(TsHeader(TS_SYNC_BYTE, 0, pusi, pid, 1, pay) \o <<aflen>>
          \o Fill(Min(aflen, 183), 255) \o payload, TS_PACKET_SIZE)

\* a packet that carries exactly the n octets of payload, stuffed to 188
TsStuffed(pusi, pid, payload) ==
    IF Len(payload) >= 184 THEN TsPlain(TS_SYNC_BYTE, 0, pusi, pid, 1, payload)
    ELSE TsAdapt(pusi, pid, 1, 183 - Len(payload), payload)

\* PES header: start code, stream id, PES_packet_length, flags, header length
PesHeader(code, L, N) ==
    <<0, 0, code, 189, L \div 256, L % 256, 128, 0, N>>

PktBadSync    == TsPlain(72, 0, 1, TeletextPid, 1, PesHeader(1, 0, 0) \o Data(175, 1))
PktTei        == TsPlain(TS_SYNC_BYTE, 1, 1, TeletextPid, 1, PesHeader(1, 0, 0) \o Data(175, 2))
PktOtherPid   == TsPlain(TS_SYNC_BYTE, 0, 1, TeletextPid + 1, 1, PesHeader(1, 0, 0) \o Data(175, 3))
PktNoPayload  == TsPlain(TS_SYNC_BYTE, 0, 1, TeletextPid, 0, PesHeader(1, 0, 0) \o Data(175, 4))
PktAfTooLong  == TsAdapt(1, TeletextPid, 1, 183, <<>>)
PktAfCorrupt  == TsAdapt(1, TeletextPid, 1, 250, <<>>)

\* PUSI packets
PktUnbounded  == TsStuffed(1, TeletextPid, PesHeader(1, 0, 5) \o Data(175, 5))
PktBoundedOne == TsStuffed(1, TeletextPid, PesHeader(1, 100, 5) \o Data(97, 6))
PktBoundedTwo == TsStuffed(1, TeletextPid, PesHeader(1, 200, 5) \o Data(175, 7))
PktShortStart == TsStuffed(1, TeletextPid, <<0, 0, 1>>)
PktBadCode    == TsStuffed(1, TeletextPid, PesHeader(2, 100, 5) \o Data(97, 8))
PktBigN       == TsStuffed(1, TeletextPid, PesHeader(1, 100, 200) \o Data(97, 9))

\* continuation packets (PUSI = 0)
PktCont       == TsStuffed(0, TeletextPid, Data(184, 10))
PktContShort  == TsStuffed(0, TeletextPid, Data(22, 11))
PktContHeader == TsStuffed(0, TeletextPid, <<189, 0, 20, 128, 0, 0>> \o Data(17, 12))
PktContPes    == TsStuffed(0, TeletextPid, PesHeader(1, 0, 0) \o Data(175, 13))

DropPackets  == {PktBadSync, PktTei, PktOtherPid, PktNoPayload, PktAfTooLong, PktAfCorrupt}
PusiPackets  == {PktUnbounded, PktBoundedOne, PktBoundedTwo, PktShortStart, PktBadCode, PktBigN}
ContPackets  == {PktCont, PktContShort, PktContHeader, PktContPes}
AllPackets   == DropPackets \cup PusiPackets \cup ContPackets

\* CURLOPT_BUFFERSIZE: the largest chunk curl hands to the write callback
CURL_BUFFERSIZE == 65536

\* full-payload packets that fill the accumulator to its capacity, whole
\* packets in a buffer-full chunk, and a chunk that completes the overflow
FullPackets  == MAX_PES_SIZE \div (TS_PACKET_SIZE - 4)
ChunkPackets == CURL_BUFFERSIZE \div TS_PACKET_SIZE
RestPackets  == FullPackets + 1 - ChunkPackets
FillPackets  == FullPackets - ChunkPackets

---------------------------------------------------------------------------
(* TS header fields as process_ts_packet reads them (octet i is pkt[i+1]) *)

TransportError(pkt) == (pkt[2] \div 128) % 2 = 1
PidOf(pkt)          == ((pkt[2] % 32) * 256) + pkt[3]
Pusi(pkt)           == (pkt[2] \div 64) % 2
HasAdaptation(pkt)  == (pkt[4] \div 32) % 2 = 1
HasPayload_Always(pkt) == TRUE
HasPayload(pkt)     == (pkt[4] \div 16) % 2 = 1
PayloadOffset(pkt)  == IF HasAdaptation(pkt) THEN 5 + pkt[5] ELSE 4

---------------------------------------------------------------------------
(* The pipeline state threaded through one curl_write_cb call:             *)
(*   carry, carry_len, pes, pes_len, target   the C globals                *)
(*   offset                                   the local of curl_write_cb   *)
(*   demux, dec, conn, lines                  handles in use, connection,  *)
(*                                            whether the demux yields     *)
(*                                            sliced lines in this call    *)
(*   carry_conn, pes_conn  connection each stored octet was received on    *)
(*   pes_head   payload octets of the PUSI packet the accumulator starts   *)
(*              with, 0 if it does not start with a PUSI packet            *)
(*   pes_tail   the accumulator was restarted by an overflow reset         *)
(*   in_conn    connections of the octets of the packet being processed    *)
(*   disp       dispatch_pes calls made for the packet being processed     *)
(*   kind       what process_ts_packet did: "drop", "append", "overflow"   *)
(*   appended   accumulator length right after the memcpy of line 299      *)
(*   field      PES_packet_length as the accumulator holds it then         *)
(*   start      pes_head of the accumulator then                           *)
(*   log        one entry per packet handed to process_ts_packet           *)
(*   fed        <<instance, connection>> pairs: data fed to an instance    *)
(*   rx, emitted, rx_len, n_emitted   history of the connection            *)
(*                                                                         *)
(* An intermediate result is named by a variable bound over a singleton,   *)
(*   CHOOSE r \in { F(x) : x \in {e} } : TRUE,                             *)
(* which is F(e) with e evaluated once.                                    *)

\* feed_pes_data (lines 205-226): the payload goes to the demux g_demux; the
\* lines it slices, if any, go to the decoder g_dec
feed_pes_data(s, data) ==
    [s EXCEPT !.fed = @ \cup {<<s.demux, s.conn>>}
                        \cup (IF s.lines THEN {<<s.dec, s.conn>>} ELSE {})]

\* the optional header fields are not skipped
DataStart_Fixed(pes) == 9

\* lines 247-248: offset of the data payload behind the PES header
DataStart(pes) == 9 + pes[9]

\* lines 243-252: what dispatch_pes forwards, <<forwarded?, octets>>
Forwarded(pes, len) ==
    IF len < 9 THEN <<FALSE, <<>>>>
    ELSE IF pes[1] # 0 \/ pes[2] # 0 \/ pes[3] # 1 THEN <<FALSE, <<>>>>
    ELSE IF DataStart(pes) >= len THEN <<FALSE, <<>>>>
    ELSE <<TRUE, SubSeq(pes, DataStart(pes) + 1, len)>>

\* the record of one dispatch_pes call; left is filled in by the reset
\* that follows the call
Dispatched(s, why, f) ==
    [acc |-> SubSeq(s.pes, 1, s.pes_len), why |-> why, fwd |-> f[1], data |-> f[2],
     conns |-> s.pes_conn, head |-> s.pes_head, tail |-> s.pes_tail,
     target |-> s.target, demux |-> s.demux, dec |-> s.dec, left |-> <<>>]

\* dispatch_pes (lines 241-253)
dispatch_pes(s, why) ==
    CHOOSE r \in {
        [(IF f[1] THEN feed_pes_data(s, f[2]) ELSE s)
            EXCEPT !.disp = Append(@, Dispatched(s, why, f))]
        : f \in {Forwarded(s.pes, s.pes_len)} } : TRUE

\* the reset leaves everything as it is
Cleared_Not(s) == s

\* g_pes_len = 0; g_pes_target = 0 (lines 286-287, 303-304, 311-312)
Cleared(s) ==
    [s EXCEPT !.pes = <<>>, !.pes_len = 0, !.target = 0, !.pes_conn = {},
              !.pes_head = 0, !.pes_tail = FALSE]

\* dispatch_pes and the reset behind it (lines 284-287, 310-312)
DispatchAndClear(s, why) ==
    CHOOSE r \in {
        [c EXCEPT !.disp[Len(c.disp)].left = <<c.pes_len, c.target>>]
        : c \in {Cleared(dispatch_pes(s, why))} } : TRUE

\* the target is set whatever the length field says
PesTarget_Always(payload) ==
    IF Len(payload) >= 6 THEN 6 + payload[5] * 256 + payload[6] ELSE 0

\* lines 290-294: expected PES size read from the payload of a PUSI packet
PesTarget(payload) ==
    IF Len(payload) >= 6
    THEN IF payload[5] * 256 + payload[6] > 0
         THEN 6 + payload[5] * 256 + payload[6]
         ELSE 0
    ELSE 0

\* the accumulated octets are dispatched but not cleared
PusiStart_Kept(s, payload) ==
    [(IF s.pes_len > 0 THEN dispatch_pes(s, "pusi") ELSE s)
        EXCEPT !.target = PesTarget(payload), !.pes_head = Len(payload)]

\* the payload is stored before the accumulated octets are dispatched
PusiStart_Late(s, payload) ==
    [(IF s.pes_len > 0
      THEN DispatchAndClear([s EXCEPT !.pes = SubSeq(@, 1, s.pes_len) \o payload,
                                      !.pes_len = @ + Len(payload)], "pusi")
      ELSE Cleared(s))
        EXCEPT !.target = PesTarget(payload), !.pes_head = Len(payload)]

\* lines 281-295: a PUSI packet dispatches what is accumulated and restarts
PusiStart(s, payload) ==
    [(IF s.pes_len > 0 THEN DispatchAndClear(s, "pusi") ELSE Cleared(s))
        EXCEPT !.target = PesTarget(payload), !.pes_head = Len(payload)]

\* line 298: does the payload fit into the accumulator
Fits(len, payload_len) == len + payload_len <= MAX_PES_SIZE

\* a bounded PES is never complete
Complete_Never(target, len) == FALSE

\* a PES is complete only when it is longer than its target
Complete_Late(target, len) == target > 0 /\ len > target

\* line 309: a bounded PES is complete
Complete(target, len) == target > 0 /\ len >= target

\* PES_packet_length (octets 4..5) of the accumulated octets, 0 if not there
LengthField(pes) == IF Len(pes) >= 6 THEN pes[5] * 256 + pes[6] ELSE 0

\* lines 299-300: memcpy behind the accumulated octets
Stored(s, payload) ==
    CHOOSE r \in {
        [s EXCEPT !.pes = pes1,
                  !.pes_len = @ + Len(payload),
                  !.pes_conn = @ \cup s.in_conn,
                  !.kind = "append",
                  !.appended = s.pes_len + Len(payload),
                  !.field = LengthField(pes1),
                  !.start = s.pes_head]
        : pes1 \in {SubSeq(s.pes, 1, s.pes_len) \o payload} } : TRUE

\* lines 297-313: accumulate the payload, dispatch a complete bounded PES
Accumulate(s, payload) ==
    IF Fits(s.pes_len, Len(payload))
    THEN CHOOSE r \in {
           IF Complete(s1.target, s1.pes_len)
           THEN DispatchAndClear(s1, "bound")
           ELSE s1
           : s1 \in {Stored(s, payload)} } : TRUE
    ELSE [Cleared(s) EXCEPT !.pes_tail = TRUE, !.kind = "overflow"]

\* lines 281-313 for a packet that passed the filter
Reassemble(s, pus, payload) ==
    CHOOSE r \in { Accumulate(s1, payload)
                   : s1 \in {IF pus = 1 THEN PusiStart(s, payload) ELSE s} } : TRUE

\* lines 257-314 without the bookkeeping of the log
TsPacket(s, pkt) ==
    IF pkt[1] # TS_SYNC_BYTE THEN s
    ELSE IF TransportError(pkt) THEN s
    ELSE IF PidOf(pkt) # g_pid THEN s
    ELSE IF ~HasPayload(pkt) THEN s
    ELSE IF HasAdaptation(pkt) /\ PayloadOffset(pkt) >= TS_PACKET_SIZE THEN s
    ELSE IF TS_PACKET_SIZE - PayloadOffset(pkt) <= 0 THEN s
    ELSE CHOOSE r \in { Reassemble(s, Pusi(pkt), payload)
                        : payload \in {SubSeq(pkt, PayloadOffset(pkt) + 1,
                                              TS_PACKET_SIZE)} } : TRUE

\* process_ts_packet (lines 257-314), and the log entry of what it did
process_ts_packet(s, pkt) ==
    CHOOSE r \in {
        [s1 EXCEPT !.log = Append(@,
                      [hdr |-> SubSeq(pkt, 1, 5), size |-> Len(pkt),
                       conns |-> s.in_conn, kind |-> s1.kind,
                       len0 |-> s.pes_len, tgt0 |-> s.target,
                       len1 |-> s1.pes_len, tgt1 |-> s1.target,
                       same |-> s1.pes = s.pes, start |-> s1.start,
                       appended |-> s1.appended, field |-> s1.field,
                       disp |-> s1.disp]),
                   !.n_emitted = @ + 1,
                   !.emitted = IF s.keep THEN Append(@, pkt) ELSE @]
        : s1 \in {TsPacket([s EXCEPT !.disp = <<>>, !.kind = "drop",
                                      !.appended = 0, !.field = 0, !.start = 0], pkt)} } : TRUE

---------------------------------------------------------------------------
(* curl_write_cb: the TS framer (lines 326-356) *)

\* memcpy(dst + at, src + from, n) on a fixed-size array
Memcpy(dst, at, src, from, n) ==
    [i \in 1..Len(dst) |-> IF at < i /\ i <= at + n THEN src[from + i - at] ELSE dst[i]]

\* the connection c noted for the n octets stored at dst + at
Note(dst, at, n, c) ==
    [i \in 1..Len(dst) |-> IF at < i /\ i <= at + n THEN c ELSE dst[i]]

Range(f) == {f[i] : i \in DOMAIN f}

\* the octets moved to the carry buffer are read again by the loop
FillCarry_Again(s, ptr, take) ==
    [s EXCEPT !.carry = Memcpy(@, s.carry_len, ptr, 0, take),
              !.carry_conn = Note(@, s.carry_len, take, s.conn),
              !.carry_len = @ + take,
              !.offset = 0]

\* lines 331-335: move the head of the chunk behind the carried octets
FillCarry(s, ptr, take) ==
    [s EXCEPT !.carry = Memcpy(@, s.carry_len, ptr, 0, take),
              !.carry_conn = Note(@, s.carry_len, take, s.conn),
              !.carry_len = @ + take,
              !.offset = take]

\* lines 337-340: a full carry buffer is one packet
CarryPacket(s) ==
    IF s.carry_len = TS_PACKET_SIZE
    THEN [process_ts_packet([s EXCEPT !.in_conn = Range(s.carry_conn)],
                            SubSeq(s.carry, 1, s.carry_len))
             EXCEPT !.carry_len = 0]
    ELSE s

\* lines 330-341: drain the carry buffer first
DrainCarry(s, ptr, total) ==
    IF s.carry_len > 0
    THEN CHOOSE r \in { CarryPacket(s1)
                        : s1 \in {FillCarry(s, ptr,
                                    IF total < TS_PACKET_SIZE - s.carry_len
                                    THEN total
                                    ELSE TS_PACKET_SIZE - s.carry_len)} } : TRUE
    ELSE [s EXCEPT !.offset = 0]

\* the loop test with < for <=
DirectCount_Strict(offset, total) ==
    IF offset + TS_PACKET_SIZE < total
    THEN (total - offset - 1) \div TS_PACKET_SIZE ELSE 0

\* iterations of the loop of lines 344-347
DirectCount(offset, total) ==
    IF offset + TS_PACKET_SIZE <= total THEN (total - offset) \div TS_PACKET_SIZE ELSE 0

\* line 345: the packet at ptr + at
DirectPacket(s, ptr, at) ==
    CHOOSE r \in { process_ts_packet([s EXCEPT !.in_conn = {s.conn}], pkt)
                   : pkt \in {SubSeq(ptr, at + 1, at + TS_PACKET_SIZE)} } : TRUE

\* lines 344-347, iterations lo..hi of the loop; iteration j reads the
\* packet at offset + 188 * (j - 1)
RECURSIVE DirectPackets(_, _, _, _)
DirectPackets(s, ptr, lo, hi) ==
    IF lo > hi THEN s
    ELSE IF lo = hi THEN DirectPacket(s, ptr, s.offset + TS_PACKET_SIZE * (lo - 1))
    ELSE CHOOSE r \in { DirectPackets(s1, ptr, ((lo + hi) \div 2) + 1, hi)
                        : s1 \in {DirectPackets(s, ptr, lo, (lo + hi) \div 2)} } : TRUE

\* the remainder is lost
SaveLeftover_Lost(s, ptr, total) == s

\* lines 350-354: save the remainder in the carry buffer
SaveLeftover(s, ptr, total) ==
    IF total - s.offset > 0
    THEN [s EXCEPT !.carry = Memcpy(@, 0, ptr, s.offset, total - s.offset),
                   !.carry_conn = Note(@, 0, total - s.offset, s.conn),
                   !.carry_len = total - s.offset]
    ELSE s

\* lines 344-354 after the carry buffer is drained
Direct(s, ptr, total) ==
    CHOOSE r \in {
        SaveLeftover([s2 EXCEPT !.offset = @ + TS_PACKET_SIZE * DirectCount(s.offset, total)],
                     ptr, total)
        : s2 \in {DirectPackets(s, ptr, 1, DirectCount(s.offset, total))} } : TRUE

\* curl_write_cb (lines 326-356) on a running process; ptr is the chunk
curl_write_cb(s, ptr) ==
    CHOOSE r \in {
        Direct(s1, ptr, Len(ptr))
        : s1 \in { DrainCarry(s0, ptr, Len(ptr))
                   : s0 \in {[s EXCEPT !.log = <<>>,
                                       !.rx_len = @ + Len(ptr),
                                       !.rx = IF s.keep THEN @ \o ptr ELSE @]} } } : TRUE

---------------------------------------------------------------------------
(* libzvbi instances.  lib.next is the next unused instance number,        *)
(* lib.alive the instances created and not deleted, lib.fed the            *)
(* <<instance, connection>> pairs of the data handed to an instance.       *)

ZvbiOutcomes == {"ok", "no_demux", "no_decoder", "no_handler"}

\* the instances at hand are kept
zvbi_init_Reuse(o) ==
    IF g_demux # 0 /\ g_dec # 0
    THEN [ok |-> TRUE, demux |-> g_demux, dec |-> g_dec, alive |-> lib.alive,
          next |-> lib.next, fed |-> lib.fed]
    ELSE [ok |-> o = "ok", demux |-> lib.next, dec |-> lib.next + 1,
          alive |-> lib.alive \cup {lib.next, lib.next + 1},
          next |-> lib.next + 2, fed |-> lib.fed]

\* zvbi_init (lines 362-386) with the outcome o of the three library calls;
\* what was fed to a deleted instance is gone with it
zvbi_init(o) ==
    LET alive0 == lib.alive \ {g_demux, g_dec}
        fed0   == {p \in lib.fed : p[1] \in alive0}
        n      == lib.next
    IN  CASE o = "no_demux" ->
               [ok |-> FALSE, demux |-> 0, dec |-> 0, alive |-> alive0, next |-> n,
                fed |-> fed0]
          [] o = "no_decoder" ->
               [ok |-> FALSE, demux |-> n, dec |-> 0, alive |-> alive0 \cup {n},
                next |-> n + 1, fed |-> fed0]
          [] o = "no_handler" ->
               [ok |-> FALSE, demux |-> n, dec |-> n + 1,
                alive |-> alive0 \cup {n, n + 1}, next |-> n + 2, fed |-> fed0]
          [] OTHER ->
               [ok |-> TRUE, demux |-> n, dec |-> n + 1,
                alive |-> alive0 \cup {n, n + 1}, next |-> n + 2, fed |-> fed0]

---------------------------------------------------------------------------
(* The state at entry to main(): the static initialisers of lines 54-68 *)

\* the history of a connection is dropped when its transfer is over
Closed(h) ==
    [h EXCEPT !.rx = <<>>, !.rx_len = 0, !.emitted = <<>>, !.n_emitted = 0,
              !.log = <<>>, !.calls = 0, !.sizes = <<>>]

\* feed_pes_data is not running
NoFeed == [at |-> "idle", len |-> 0, used |-> 0, rem |-> 0, calls |-> 0,
           lines |-> 0, took |-> 0]

NoHistory ==
    [rx |-> <<>>, rx_len |-> 0, emitted |-> <<>>, n_emitted |-> 0, log |-> <<>>,
     carry_conn |-> Fill(TS_PACKET_SIZE, 0), pes_conn |-> {},
     pes_head |-> 0, pes_tail |-> FALSE, calls |-> 0, refused |-> FALSE,
     sizes |-> <<>>]

---------------------------------------------------------------------------
(* Page serialiser: utf8_encode, json_escape (lines 79-121)                *)

UDP_MAX_PAYLOAD == 8192   \* sizeof(buf)
ROW_UTF8_SIZE == 256      \* sizeof(row_utf8)
ROW_ESC_SIZE == 512       \* sizeof(row_esc)

\* printf("%d") of n >= 0, as octets
RECURSIVE Decimal(_)
Decimal(n) ==
    IF n < 10 THEN <<48 + n>> ELSE Decimal(n \div 10) \o <<48 + (n % 10)>>

\* printf("%x") of one digit
HexDigit(d) == IF d < 10 THEN 48 + d ELSE 87 + d

\* lines 79-94: the octets utf8_encode writes for cp (cp < 65536: the unicode
\* field of a cell has 16 bits, so 0xE0 | (cp >> 12) is 224 + cp \div 4096)
utf8_encode(cp) ==
    IF cp < 128 THEN <<cp>>
    ELSE IF cp < 2048
         THEN <<192 + (cp \div 64), 128 + (cp % 64)>>
         ELSE <<224 + (cp \div 4096),
                128 + ((cp \div 64) % 64),
                128 + (cp % 64)>>

\* lines 103-117: what one octet c of the source becomes
Escaped_Raw(c) == <<c>>

Escaped(c) ==
    IF c = 34 THEN <<92, 34>>
    ELSE IF c = 92 THEN <<92, 92>>
    ELSE IF c = 10 THEN <<92, 110>>
    ELSE IF c = 13 THEN <<92, 114>>
    ELSE IF c = 9 THEN <<92, 116>>
    ELSE IF c < 32 THEN <<92, 117, 48, 48, HexDigit(c \div 16), HexDigit(c % 16)>>
    ELSE <<c>>

\* lines 102-118: the loop over src[lo..hi], dst being the octets written
RECURSIVE EscapeLoop(_, _, _, _, _)
EscapeLoop(dst, dst_size, src, lo, hi) ==
    IF lo > hi THEN dst
    ELSE IF lo = hi
         THEN IF Len(dst) < dst_size - 6 THEN dst \o Escaped(src[lo]) ELSE dst
         ELSE CHOOSE r \in { EscapeLoop(d, dst_size, src, (lo + hi) \div 2 + 1, hi) :
                             d \in {EscapeLoop(dst, dst_size, src, lo, (lo + hi) \div 2)} } : TRUE

\* lines 98-121: the octets json_escape leaves in dst[0 .. out)
json_escape(dst_size, src) == EscapeLoop(<<>>, dst_size, src, 1, Len(src))

---------------------------------------------------------------------------
(* Decoded pages and page events delivered by libzvbi                      *)

\* BCD page number of the decimal page d, as libzvbi reports it (0x100 ..)
Bcd(d) == (d \div 100) * 256 + ((d \div 10) % 10) * 16 + (d % 10)

Cycle(s, col) == s[(col % Len(s)) + 1]

\* codepoint of the cell in column col (from 0) of a row of the given kind
Cell(kind, col, columns) ==
    CASE kind = "blank"     -> 32
      [] kind = "text"      -> IF col >= columns - 8 \/ col % 6 = 5 THEN 32
                               ELSE 65 + (col % 26)
      [] kind = "quote"     -> 34
      [] kind = "escape"    -> Cycle(<<34, 92, 65, 32, 47, 92, 39, 44, 93, 125, 91, 123>>, col)
      [] kind = "attribute" -> IF col >= columns - 4 THEN 7
                               ELSE Cycle(<<3, 80, 10, 13, 9, 49, 173, 60994, 48,
                                            31, 65535, 60928, 0, 48>>, col)
      [] kind = "latin"     -> Cycle(<<233, 163, 128, 2047, 65, 172, 174, 127>>, col)
      [] kind = "wide"      -> Cycle(<<2048, 8364, 9608, 60927, 55295, 57344>>, col)
      [] kind = "surrogate" -> Cycle(<<65, 55296, 66, 57343>>, col)

RowKinds == {"blank", "text", "quote", "escape", "attribute", "latin", "wide",
             "surrogate"}

\* vbi_page as vbi_fetch_vt_page fills it: row 0 of kind head, the others body
Page(grid) ==
    [rows |-> grid.rows, columns |-> grid.columns,
     text |-> [i \in 1..(grid.rows * grid.columns) |->
                 Cell(IF i <= grid.columns THEN grid.head ELSE grid.body,
                      (i - 1) % grid.columns, grid.columns)]]

Grid(rows, columns, head, body) ==
    [rows |-> rows, columns |-> columns, head |-> head, body |-> body]

\* Teletext pages: 25 rows of 40 columns, 41 with the navigation column
TeletextGrids ==
    {Grid(25, 40, k, k) : k \in RowKinds}
    \cup {Grid(25, 41, k, k) : k \in {"text", "wide"}}
    \cup {Grid(25, 40, "text", k) : k \in {"blank", "escape"}}
    \cup {Grid(25, 40, "quote", "text")}

\* grids beyond the Teletext dimensions, as the vbi_page interface allows them
OversizeGrids ==
    {Grid(25, 85, "wide", "wide"), Grid(25, 260, "quote", "quote"),
     Grid(2, 300, "escape", "escape"), Grid(24, 40, "text", "text"),
     Grid(0, 40, "text", "text")}

UsualEvent ==
    [type |-> "TTX_PAGE", pgno |-> Bcd(100), subno |-> 0, fetched |-> TRUE,
     now |-> 1708789200, grid |-> Grid(25, 40, "text", "text")]

NoEvent == [UsualEvent EXCEPT !.type = "NONE"]

\* what libzvbi can hand to the callback: the usual event, and those that
\* differ from it in one field
Events ==
    {[UsualEvent EXCEPT !.type = t] : t \in {"TTX_PAGE", "NETWORK"}}
    \cup {[UsualEvent EXCEPT !.pgno = Bcd(d)] : d \in {100, 199, 899}}
    \cup {[UsualEvent EXCEPT !.subno = n] : n \in {0, 16255, 65538}}
    \cup {[UsualEvent EXCEPT !.now = t] : t \in {0, 1708789200}}
    \cup {[UsualEvent EXCEPT !.fetched = f] : f \in BOOLEAN}
    \cup {[UsualEvent EXCEPT !.grid = g] : g \in TeletextGrids \cup OversizeGrids}

\* an event and what sendto returns for its datagram: 0 or more, or -1
Deliveries == {<<ev, 0>> : ev \in Events} \cup {<<UsualEvent, -1>>}

---------------------------------------------------------------------------
(* Page serialiser: ttx_event_cb, udp_send (lines 125-201)                 *)

\* lines 154-156: {"page":%d,"subpage":%d,"ts":%ld,"lines":[
Header(pgno, subno, now) ==
    <<123, 34, 112, 97, 103, 101, 34, 58>> \o Decimal(pgno)
      \o <<44, 34, 115, 117, 98, 112, 97, 103, 101, 34, 58>> \o Decimal(subno)
      \o <<44, 34, 116, 115, 34, 58>> \o Decimal(now)
      \o <<44, 34, 108, 105, 110, 101, 115, 34, 58, 91>>

\* lines 166-169: attribute cells, soft hyphen and mosaics become a space
Sanitise_NoHyphen(cp) == IF cp < 32 \/ cp >= 60928 THEN 32 ELSE cp

Sanitise(cp) == IF cp < 32 \/ cp = 173 \/ cp >= 60928 THEN 32 ELSE cp

\* lines 163-173: the loop over the columns lo..hi (from 0) of a row,
\* row_utf8 being the octets written so far (rlen is their number)
RECURSIVE EncodeLoop(_, _, _, _, _)
EncodeLoop(row_utf8, page, row, lo, hi) ==
    IF lo > hi THEN row_utf8
    ELSE IF lo = hi
         THEN IF Len(row_utf8) < ROW_UTF8_SIZE - 4
              THEN row_utf8 \o utf8_encode(Sanitise(page.text[row * page.columns + lo + 1]))
              ELSE row_utf8
         ELSE CHOOSE r \in { EncodeLoop(u, page, row, (lo + hi) \div 2 + 1, hi) :
                             u \in {EncodeLoop(row_utf8, page, row, lo, (lo + hi) \div 2)} } : TRUE

\* line 175: trailing spaces removed
Trim(s) ==
    CHOOSE r \in { SubSeq(u, 1, CHOOSE n \in 0..Len(u) :
                                  /\ n > 0 => u[n] # 32
                                  /\ \A i \in (n + 1)..Len(u) : u[i] = 32) :
                   u \in {s} } : TRUE

\* line 178: the comma before every row but the first
Separated_Always(row) == TRUE

Separated(row) == row > 0

\* lines 178-191: one row appended to buf (pos is the length of buf)
EmitRow(buf, row, row_utf8) ==
    CHOOSE r \in
      { IF Len(b3) < UDP_MAX_PAYLOAD - 2 THEN b3 \o <<34>> ELSE b3 :
        b3 \in { IF Len(b2) + Len(row_esc) < UDP_MAX_PAYLOAD - 4
                 THEN b2 \o row_esc ELSE b2 :
                 b2 \in { IF Len(b1) < UDP_MAX_PAYLOAD - 4 THEN b1 \o <<34>> ELSE b1 :
                          b1 \in { IF Separated(row) /\ Len(buf) < UDP_MAX_PAYLOAD - 2
                                   THEN buf \o <<44>> ELSE buf } },
                 row_esc \in { json_escape(ROW_ESC_SIZE, row_utf8) } } } : TRUE

\* lines 161-192: the loop over the rows lo..hi
RECURSIVE RowsLoop(_, _, _, _)
RowsLoop(buf, page, lo, hi) ==
    IF lo > hi THEN buf
    ELSE IF lo = hi
         THEN CHOOSE r \in { EmitRow(buf, lo, u) :
                             u \in {Trim(EncodeLoop(<<>>, page, lo, 0, page.columns - 1))} } : TRUE
         ELSE CHOOSE r \in { RowsLoop(b, page, (lo + hi) \div 2 + 1, hi) :
                             b \in {RowsLoop(buf, page, lo, (lo + hi) \div 2)} } : TRUE

\* lines 194-195: ]} and a newline
Finished(buf) ==
    CHOOSE r \in { IF Len(b) < UDP_MAX_PAYLOAD - 4 THEN b \o <<93, 125, 10>> ELSE b :
                   b \in {buf} } : TRUE

\* lines 148-197: buf[0 .. pos) for the fetched page
Serialise(pgno, subno, now, page) ==
    CHOOSE r \in { Finished(RowsLoop(h, page, 0, page.rows - 1)) :
                   h \in {Header(pgno, subno, now)} } : TRUE

\* after a failure no datagram is sent any more
udp_send_Once(u, s, rc) ==
    IF u.failed THEN u
    ELSE [u EXCEPT !.sends = @ + 1, !.dgram = s, !.to = g_dest, !.failed = (rc < 0),
                   !.errors = IF rc < 0 THEN @ + 1 ELSE @]

\* lines 125-131: one sendto; rc < 0 is logged only (errors counts the lines
\* logged)
udp_send(u, s, rc) ==
    [u EXCEPT !.sends = @ + 1, !.dgram = s, !.to = g_dest, !.failed = (rc < 0),
              !.errors = IF rc < 0 THEN @ + 1 ELSE @]

\* line 144: whether vbi_fetch_vt_page returned the page
Fetched_Always(ev) == TRUE

Fetched(ev) == ev.fetched

\* lines 135-201: the callback; u is the socket's record, rc what sendto returns
ttx_event_cb(u, ev, rc) ==
    IF ev.type # "TTX_PAGE" THEN u
    ELSE IF ~Fetched(ev) THEN u
    ELSE CHOOSE r \in { udp_send(u, Serialise(ev.pgno, ev.subno % 65536, ev.now, p), rc) :
                        p \in {Page(ev.grid)} } : TRUE

InitArgs(keep, a) ==
    /\ args = a
    /\ g_udp_fd = -1
    /\ g_dest = 0
    /\ udp = [events |-> 0, sends |-> 0, dgram |-> <<>>, to |-> 0, failed |-> FALSE,
              ev |-> NoEvent, open |-> FALSE, errors |-> 0]
    /\ pc = "main"
    /\ exit_code = -1
    /\ g_running = 1
    /\ g_pid = 0
    /\ g_demux = 0
    /\ g_dec = 0
    /\ g_carry = Fill(TS_PACKET_SIZE, 0)
    /\ g_carry_len = 0
    /\ g_pes = <<>>
    /\ g_pes_len = 0
    /\ g_pes_target = 0
    /\ curl = "idle"
    /\ wire = <<>>
    /\ conn = 0
    /\ sent = [single |-> 0, burst |-> 0, pkts |-> 0, status |-> 0, hops |-> 0]
    /\ lib = [next |-> 1, alive |-> {}, fed |-> {}]
    /\ gh = NoHistory
    /\ trace = keep
    /\ feed = NoFeed

\* ttxd 192.168.1.50 21 409 5555
UsualArgs == [argc |-> 5, pid |-> TeletextPid, port |-> UsualPort]

InitWith(keep) == InitArgs(keep, UsualArgs)

Init == InitWith(FALSE)

InitFramer == InitWith(TRUE)

\* invocations: the usual one, and those that differ from it in the argument
\* count, in the PID or in the port (what atoi returns for argv[3], argv[4])
Invocations ==
    {[UsualArgs EXCEPT !.argc = n] : n \in {1, 4, 6}}
    \cup {[UsualArgs EXCEPT !.pid = p] : p \in {-1, 0, 1, TeletextPid, 8190, 8191, 8192}}
    \cup {[UsualArgs EXCEPT !.port = q] : q \in {-1, 0, 1, UsualPort, 65535, 65536}}

InitMain == \E a \in Invocations : InitArgs(FALSE, a)

pipeline == <<g_carry, g_carry_len, g_pes, g_pes_len, g_pes_target>>
handles  == <<g_demux, g_dec, lib>>
network  == <<curl, wire, conn, sent>>
rest     == <<args, g_udp_fd, g_dest, udp, feed>>

---------------------------------------------------------------------------
(* main(): startup, reconnect loop, shutdown *)

\* lines 391-418: argument count, atoi of PID and port, range checks
MainArgs ==
    /\ pc = "main"
    /\ IF args.argc # 5
       THEN /\ pc' = "exit" /\ exit_code' = 1
            /\ g_pid' = g_pid
       ELSE /\ g_pid' = args.pid
            /\ IF args.pid <= 0 \/ args.pid > 8191
               THEN pc' = "exit" /\ exit_code' = 1
               ELSE IF args.port <= 0 \/ args.port > 65535
                    THEN pc' = "exit" /\ exit_code' = 1
                    ELSE pc' = "socket" /\ exit_code' = exit_code
    /\ UNCHANGED <<g_running, pipeline, handles, network, gh, trace, rest>>

\* lines 420-431: signal handlers, UDP socket (fd is what socket() returns)
MainSocket ==
    /\ pc = "socket"
    /\ \E fd \in {-1, 3} :
         /\ g_udp_fd' = fd
         /\ udp' = [udp EXCEPT !.open = (fd >= 0)]
         /\ IF fd < 0
            THEN pc' = "exit" /\ exit_code' = 1 /\ g_dest' = g_dest
            ELSE pc' = "init" /\ exit_code' = exit_code /\ g_dest' = args.port
    /\ UNCHANGED <<g_running, g_pid, pipeline, handles, network, gh, trace, args,
                   feed>>

\* lines 433-450: libzvbi, libcurl (easy is whether curl_easy_init succeeds)
MainStartup ==
    /\ pc = "init"
    /\ \E o \in ZvbiOutcomes, easy \in BOOLEAN :
         LET z == zvbi_init(o)
         IN  /\ g_demux' = z.demux
             /\ g_dec' = z.dec
             /\ lib' = [next |-> z.next, alive |-> z.alive, fed |-> z.fed]
             /\ IF z.ok /\ easy THEN pc' = "loop" /\ exit_code' = exit_code
                                ELSE pc' = "exit" /\ exit_code' = 1
    /\ UNCHANGED <<g_running, g_pid, pipeline, network, gh, trace, rest>>

\* the loop is entered whatever the flag says
LoopTest_Blind ==
    /\ pc = "loop"
    /\ conn < MaxConn
    /\ pc' = "reset"
    /\ UNCHANGED <<exit_code, g_running, g_pid, pipeline, handles, network, gh, trace, rest>>

\* line 453: while (g_running)
LoopTest ==
    /\ pc = "loop"
    /\ conn < MaxConn
    /\ pc' = IF g_running = 1 THEN "reset" ELSE "shutdown"
    /\ UNCHANGED <<exit_code, g_running, g_pid, pipeline, handles, network, gh, trace, rest>>

\* no reset: the state of the previous connection is kept
ResetState_Kept == [carry_len |-> g_carry_len, pes_len |-> g_pes_len, target |-> g_pes_target]

\* lines 455-457: the values the accumulation state is reset to
ResetState == [carry_len |-> 0, pes_len |-> 0, target |-> 0]

LoopReset ==
    /\ pc = "reset"
    /\ LET r == ResetState
       IN  /\ g_carry_len' = r.carry_len
           /\ g_pes_len' = r.pes_len
           /\ g_pes_target' = r.target
           /\ g_pes' = SubSeq(g_pes, 1, r.pes_len)
           /\ gh' = IF r.pes_len = 0
                    THEN [gh EXCEPT !.pes_conn = {}, !.pes_head = 0, !.pes_tail = FALSE]
                    ELSE gh
    /\ pc' = "zvbi"
    /\ UNCHANGED <<exit_code, g_running, g_pid, g_carry, handles, network, trace, rest>>

\* lines 459-460: recreate demux and decoder, leave the loop if that fails
LoopZvbi ==
    /\ pc = "zvbi"
    /\ \E o \in ZvbiOutcomes :
         LET z == zvbi_init(o)
         IN  /\ g_demux' = z.demux
             /\ g_dec' = z.dec
             /\ lib' = [next |-> z.next, alive |-> z.alive, fed |-> z.fed]
             /\ pc' = IF z.ok THEN "perform" ELSE "shutdown"
    /\ UNCHANGED <<exit_code, g_running, g_pid, pipeline, network, gh, trace, rest>>

\* lines 462-472: curl_easy_perform starts a transfer: a new connection attempt
CurlStart ==
    /\ pc = "perform"
    /\ curl = "idle"
    /\ curl' = "connecting"
    /\ conn' = conn + 1
    /\ sent' = [single |-> 0, burst |-> 0, pkts |-> 0, status |-> 0, hops |-> 0]
    /\ wire' = <<>>
    /\ UNCHANGED <<pc, exit_code, g_running, g_pid, pipeline, handles, gh, trace, rest>>

\* status lines a server can answer the GET with
Statuses == {200, 302, 404, 503}

\* line 466: CURLOPT_FOLLOWLOCATION 1L, curl requests the Location of a 3xx
Redirect(status) == status \in 300..399

\* the attempt fails (no connection within CONNECTTIMEOUT), or the server
\* answers: curl follows a redirect with a new request, and hands the body
\* of every other response to the write callback (CURLOPT_FAILONERROR is
\* not set, so the status is not looked at)
CurlConnect ==
    /\ pc = "perform"
    /\ curl = "connecting"
    /\ \/ curl' = "idle" /\ pc' = "ended" /\ sent' = sent
       \/ \E status \in Statuses :
            /\ pc' = pc
            /\ IF Redirect(status)
               THEN /\ sent.hops < MaxRedirects
                    /\ curl' = curl
                    /\ sent' = [sent EXCEPT !.status = status, !.hops = @ + 1]
               ELSE /\ curl' = "body"
                    /\ sent' = [sent EXCEPT !.status = status]
    /\ UNCHANGED <<exit_code, g_running, g_pid, pipeline, handles, wire, conn,
                   gh, trace, rest>>

\* the server closes the connection or the read fails: curl_easy_perform returns
StreamEnd ==
    /\ pc = "perform"
    /\ curl = "body"
    /\ curl' = "idle"
    /\ wire' = <<>>
    /\ pc' = "ended"
    /\ gh' = Closed(gh)
    /\ UNCHANGED <<exit_code, g_running, g_pid, pipeline, handles, conn, sent, trace, rest>>

\* the end of a transfer ends the process
AfterPerform_Fatal ==
    /\ pc = "ended"
    /\ pc' = "shutdown"
    /\ UNCHANGED <<exit_code, g_running, g_pid, pipeline, handles, network, gh, trace, rest>>

\* line 474: if (!g_running) break
AfterPerform ==
    /\ pc = "ended"
    /\ pc' = IF g_running = 1 THEN "sleep" ELSE "shutdown"
    /\ UNCHANGED <<exit_code, g_running, g_pid, pipeline, handles, network, gh, trace, rest>>

\* after the delay the transfer is started again at once
Sleep_Reconnect ==
    /\ pc = "sleep"
    /\ pc' = "perform"
    /\ UNCHANGED <<exit_code, g_running, g_pid, pipeline, handles, network, gh, trace, rest>>

\* lines 476-480: log, sleep(5), back to the loop test
Sleep ==
    /\ pc = "sleep"
    /\ pc' = "loop"
    /\ UNCHANGED <<exit_code, g_running, g_pid, pipeline, handles, network, gh, trace, rest>>

\* lines 482-491: release curl, decoder, demux and socket, return 0
Shutdown ==
    /\ pc = "shutdown"
    /\ lib' = [lib EXCEPT !.alive = @ \ {g_dec, g_demux}]
    /\ udp' = [udp EXCEPT !.open = FALSE]
    /\ exit_code' = 0
    /\ pc' = "exit"
    /\ UNCHANGED <<g_running, g_pid, g_demux, g_dec, pipeline, network, gh, trace,
                   args, g_udp_fd, g_dest, feed>>

\* signal_handler (lines 71-75), installed by lines 420-421
signal_handler ==
    /\ pc \notin {"main", "socket", "exit"}
    /\ g_running' = 0
    /\ UNCHANGED <<pc, exit_code, g_pid, pipeline, handles, network, gh, trace, rest>>

---------------------------------------------------------------------------
(* curl delivers a chunk of the body to curl_write_cb (lines 320-357) *)

Pack(lines) ==
    [carry |-> g_carry, carry_len |-> g_carry_len, pes |-> g_pes,
     pes_len |-> g_pes_len, target |-> g_pes_target,
     demux |-> g_demux, dec |-> g_dec, conn |-> conn, lines |-> lines,
     keep |-> trace, fed |-> lib.fed, offset |-> 0, in_conn |-> {}, disp |-> <<>>,
     kind |-> "drop", appended |-> 0, field |-> 0, start |-> 0,
     rx |-> gh.rx, rx_len |-> gh.rx_len, emitted |-> gh.emitted,
     n_emitted |-> gh.n_emitted, log |-> gh.log, carry_conn |-> gh.carry_conn,
     pes_conn |-> gh.pes_conn, pes_head |-> gh.pes_head, pes_tail |-> gh.pes_tail]

\* the chunk is processed whatever the flag says
Refused_Never == FALSE

\* line 324: if (!g_running)
Refused == g_running = 0

\* curl has the octets stream : n of them are delivered as one chunk
Receive(stream, n) ==
    /\ pc = "perform"
    /\ curl = "body"
    /\ n >= 1
    /\ n <= Len(stream)
    /\ IF Refused
       THEN \* line 324: return 0, curl aborts the transfer
            /\ curl' = "idle"
            /\ wire' = <<>>
            /\ pc' = "ended"
            /\ gh' = [Closed(gh) EXCEPT !.refused = TRUE]
            /\ UNCHANGED <<pipeline, lib>>
       ELSE \E lines \in BOOLEAN :
            \E p \in {Pack(lines)}, chunk \in {SubSeq(stream, 1, n)} :
            \E s \in {curl_write_cb(p, chunk)} :
                /\ g_carry' = s.carry
                /\ g_carry_len' = s.carry_len
                /\ g_pes' = s.pes
                /\ g_pes_len' = s.pes_len
                /\ g_pes_target' = s.target
                /\ lib' = [lib EXCEPT !.fed = s.fed]
                /\ gh' = [rx |-> s.rx, rx_len |-> s.rx_len, emitted |-> s.emitted,
                          n_emitted |-> s.n_emitted, log |-> s.log,
                          carry_conn |-> s.carry_conn, pes_conn |-> s.pes_conn,
                          pes_head |-> s.pes_head, pes_tail |-> s.pes_tail,
                          calls |-> gh.calls + 1, refused |-> gh.refused,
                          sizes |-> IF trace THEN Append(gh.sizes, n) ELSE gh.sizes]
                /\ wire' = SubSeq(stream, n + 1, Len(stream))
                /\ curl' = curl
                /\ pc' = pc
    /\ UNCHANGED <<exit_code, g_running, g_pid, g_demux, g_dec, conn, trace, rest>>

\* Spec: the tuner's packets arrive whole.  A chunk is one packet of
\* AllPackets or a burst: a buffer-full of packets that starts a long
\* unbounded PES, the FillPackets continuation packets that fill the
\* accumulator up to its last whole payload, or the RestPackets that take
\* the PES beyond MAX_PES_SIZE.  Bursts are what a connection opens with; while
\* a long PES is accumulated only LongRunPackets arrive as single packets.
LongRun == g_pes_len > TS_PACKET_SIZE + TS_PACKET_SIZE

LongRunPackets == {PktCont, PktBoundedOne}

Singles == IF LongRun THEN LongRunPackets ELSE AllPackets

\* the tuner itself answered the GET with 200 and sends the transport stream
Tuner == sent.status = 200 /\ sent.hops = 0

ReceiveSingle ==
    /\ Tuner
    /\ sent.single < MaxSingles
    /\ \E pkt \in Singles :
         /\ Receive(pkt, Len(pkt))
         /\ sent' = [sent EXCEPT !.single = @ + 1, !.pkts = @ + 1]

Burst(k) ==
    IF k = ChunkPackets THEN PktUnbounded \o Rep(PktCont, k - 1) ELSE Rep(PktCont, k)

ReceiveBurst ==
    /\ Tuner
    /\ sent.burst < MaxBursts
    /\ sent.single = 0
    /\ \E k \in {FillPackets, RestPackets, ChunkPackets} :
         /\ \E burst \in {Burst(k)} : Receive(burst, Len(burst))
         /\ sent' = [sent EXCEPT !.burst = @ + 1, !.pkts = @ + k]

\* SpecFramer: the tuner sends up to MaxFramerPkts packets per connection and
\* curl cuts the stream into up to MaxChunks chunks of the sizes of ChunkSizes.
FramerPackets == {PktUnbounded, PktCont}

ChunkSizes == {1, 187, 188, 189, 377}

Sends == {<<>>} \cup FramerPackets
           \cup { a \o b : a \in FramerPackets, b \in FramerPackets }

ReceiveChunk ==
    \E ext \in Sends, n \in ChunkSizes :
        /\ Tuner
        /\ gh.calls < MaxChunks
        /\ sent.pkts + Len(ext) \div TS_PACKET_SIZE <= MaxFramerPkts
        /\ ext # <<>> => n > Len(wire)
        /\ Len(ext) > TS_PACKET_SIZE => n > Len(wire) + TS_PACKET_SIZE
        /\ \E stream \in {wire \o ext} : Receive(stream, n)
        /\ sent' = [sent EXCEPT !.pkts = @ + Len(ext) \div TS_PACKET_SIZE]

---------------------------------------------------------------------------

Supervisor ==
    \/ MainArgs
    \/ MainSocket
    \/ MainStartup
    \/ LoopTest
    \/ LoopReset
    \/ LoopZvbi
    \/ CurlStart
    \/ CurlConnect
    \/ StreamEnd
    \/ AfterPerform
    \/ Sleep
    \/ Shutdown
    \/ signal_handler

Next == Supervisor \/ ReceiveSingle \/ ReceiveBurst

Spec == Init /\ [][Next]_vars

NextFramer == Supervisor \/ ReceiveChunk

SpecFramer == InitFramer /\ [][NextFramer]_vars

\* lines 135-201: libzvbi calls ttx_event_cb while a transfer feeds it
PageEvent ==
    /\ pc = "perform" /\ curl = "body"
    /\ udp.events < MaxEvents
    /\ \E d \in Deliveries :
         \E u \in {ttx_event_cb([udp EXCEPT !.events = @ + 1, !.ev = d[1]], d[1], d[2])} :
             udp' = u
    /\ UNCHANGED <<pc, exit_code, g_running, g_pid, pipeline, handles, network, gh,
                   trace, args, g_udp_fd, g_dest, feed>>

\* SpecPage: the page events of one transfer, from the state in which main()
\* has opened the first connection (socket 3, libzvbi instances 3 and 4)
InitPage ==
    /\ args = UsualArgs
    /\ g_udp_fd = 3
    /\ g_dest = UsualPort
    /\ udp = [events |-> 0, sends |-> 0, dgram |-> <<>>, to |-> 0, failed |-> FALSE,
              ev |-> NoEvent, open |-> TRUE, errors |-> 0]
    /\ pc = "perform"
    /\ exit_code = -1
    /\ g_running = 1
    /\ g_pid = TeletextPid
    /\ g_demux = 3
    /\ g_dec = 4
    /\ g_carry = Fill(TS_PACKET_SIZE, 0)
    /\ g_carry_len = 0
    /\ g_pes = <<>>
    /\ g_pes_len = 0
    /\ g_pes_target = 0
    /\ curl = "body"
    /\ wire = <<>>
    /\ conn = 1
    /\ sent = [single |-> 0, burst |-> 0, pkts |-> 0, status |-> 200, hops |-> 0]
    /\ lib = [next |-> 5, alive |-> {3, 4}, fed |-> {}]
    /\ gh = NoHistory
    /\ trace = FALSE
    /\ feed = NoFeed

NextPage == PageEvent

SpecPage == InitPage /\ [][NextPage]_vars

\* SpecHttp: the answers other than the tuner's 200.  The body of an error
\* answer is a short text; the server a redirect leads to sends what it has,
\* a text or a transport stream.
NotFound == <<60, 104, 49, 62, 52, 48, 52, 60, 47, 104, 49, 62>>

OtherBodies == {NotFound, PktUnbounded, PktCont}

ReceiveOther ==
    /\ ~Tuner
    /\ sent.single < MaxSingles
    /\ \E body \in OtherBodies :
         /\ Receive(body, Len(body))
         /\ sent' = [sent EXCEPT !.single = @ + 1]

NextHttp == Supervisor \/ ReceiveOther

SpecHttp == Init /\ [][NextHttp]_vars

\* SpecFeed: the loop of feed_pes_data over one PES data payload, with every
\* answer of vbi_dvb_demux_cor: it slices lines (0 or some) and consumes
\* took octets, 0 <= took <= rem, of what is left.
DemuxLines == {0, 1, 64}

\* lines 205-208: dispatch_pes calls feed_pes_data(data, len), len > 0
FeedEnter ==
    /\ pc = "perform" /\ curl = "body"
    /\ feed.at = "idle"
    /\ \E len \in 1..MaxFeedLen :
         feed' = [NoFeed EXCEPT !.at = "loop", !.len = len, !.rem = len]
    /\ UNCHANGED <<pc, exit_code, g_running, g_pid, pipeline, handles, network, gh,
                   trace, args, g_udp_fd, g_dest, udp>>

\* (unsigned int) x, that is x mod 2^32, computed on the 16-bit halves of x
Unsigned(x) == ((x \div 65536) % 65536) * 65536 + (x % 65536)

\* line 223: rem == (unsigned int)(p - data + rem)
NoProgress(used, rem) == rem = Unsigned(used + rem)

\* lines 210-225: one iteration: the demux call, vbi_decode of the lines, the
\* break of line 223 and the loop test
FeedLoop ==
    /\ feed.at = "loop"
    /\ feed.calls < MaxFeedCalls
    /\ \E lines \in DemuxLines, took \in 0..feed.rem :
         \E used \in {feed.used + took}, rem \in {feed.rem - took} :
             /\ feed' = [feed EXCEPT
                           !.used = used, !.rem = rem, !.calls = @ + 1,
                           !.lines = lines, !.took = took,
                           !.at = IF lines = 0 /\ NoProgress(used, rem) THEN "done"
                                  ELSE IF rem > 0 THEN "loop" ELSE "done"]
             /\ lib' = [lib EXCEPT !.fed = @ \cup {<<g_demux, conn>>}
                                          \cup (IF lines > 0 THEN {<<g_dec, conn>>}
                                                ELSE {})]
    /\ UNCHANGED <<pc, exit_code, g_running, g_pid, g_demux, g_dec, pipeline, network,
                   gh, trace, args, g_udp_fd, g_dest, udp>>

NextFeed == FeedEnter \/ FeedLoop

SpecFeed == InitPage /\ [][NextFeed]_vars

\* SpecMain: every invocation of Invocations, connections without a body
NextMain == Supervisor

SpecMain == InitMain /\ [][NextMain]_vars

---------------------------------------------------------------------------
(* The TS framer *)

InBody == pc = "perform" /\ curl = "body"

\* the stream s cut into consecutive blocks of TS_PACKET_SIZE octets
Blocks(s) ==
    [j \in 1..(Len(s) \div TS_PACKET_SIZE) |->
        SubSeq(s, TS_PACKET_SIZE * (j - 1) + 1, TS_PACKET_SIZE * j)]

\* C1: within a connection the packets handed to process_ts_packet are, in
\* order, the consecutive 188-octet blocks of the octets received so far,
\* whatever the chunks were: the emitted sequence is a function of the
\* stream alone, nothing is emitted twice, skipped or out of order.
C1_FramerEmitsBlocks ==
    (trace /\ InBody) =>
        /\ gh.rx_len = Len(gh.rx)
        /\ gh.n_emitted = Len(gh.emitted)
        /\ gh.emitted = Blocks(gh.rx)

\* two different packets reassembled from three chunks
C1_Witness ==
    /\ trace /\ InBody
    /\ gh.calls = 3
    /\ Len(gh.emitted) = 2
    /\ gh.emitted[1] # gh.emitted[2]
    /\ g_carry_len = 0

\* C2: after every framer call the carry fill count is in 0..187, equals the
\* number of octets received on the connection modulo 188, the carry buffer
\* holds exactly the last octets not yet handed on, and every packet handed
\* to process_ts_packet has 188 octets.
C2_CarryIsRemainder ==
    (trace /\ InBody) =>
        /\ g_carry_len \in 0..(TS_PACKET_SIZE - 1)
        /\ g_carry_len = gh.rx_len % TS_PACKET_SIZE
        /\ SubSeq(g_carry, 1, g_carry_len)
             = SubSeq(gh.rx, gh.rx_len - g_carry_len + 1, gh.rx_len)
        /\ \A i \in 1..Len(gh.log) : gh.log[i].size = TS_PACKET_SIZE
        /\ \A j \in 1..Len(gh.emitted) : Len(gh.emitted[j]) = TS_PACKET_SIZE

\* a chunk that ends one octet before a packet boundary: 187 octets carried
C2_Witness ==
    /\ trace /\ InBody
    /\ gh.calls >= 2
    /\ g_carry_len = TS_PACKET_SIZE - 1
    /\ gh.rx_len > TS_PACKET_SIZE

\* C3: when the first body octet of a connection reaches the framer the
\* carry fill count, the accumulator length and the target are 0; no packet
\* handed to process_ts_packet and no accumulator handed to dispatch_pes
\* holds an octet received on another connection.
C3_CleanStart ==
    InBody =>
        /\ gh.calls = 0 => (g_carry_len = 0 /\ g_pes_len = 0 /\ g_pes_target = 0)
        /\ \A i \in 1..g_carry_len : gh.carry_conn[i] = conn
        /\ gh.pes_conn \subseteq {conn}
        /\ \A i \in 1..Len(gh.log) :
              /\ gh.log[i].conns \subseteq {conn}
              /\ \A d \in 1..Len(gh.log[i].disp) :
                    gh.log[i].disp[d].conns \subseteq {conn}

\* a reconnect after a connection that ended inside a packet and inside a
\* PES: its octets are still in the carry buffer when the new PES is dispatched
C3_Witness ==
    /\ InBody
    /\ conn = 2
    /\ \E i \in 1..TS_PACKET_SIZE : gh.carry_conn[i] = 1
    /\ \E i \in 1..Len(gh.log) : Len(gh.log[i].disp) > 0

---------------------------------------------------------------------------
(* Reconnects *)

\* C4: the demux and the decoder a connection feeds are instances created
\* for it: when curl_easy_perform is entered the two handles are the only
\* live instances and nothing was fed to them, and whatever is fed while the
\* body arrives is fed to them and comes from this connection only.
C4_FreshInstances ==
    /\ pc = "perform" =>
          /\ g_demux # 0 /\ g_dec # 0 /\ g_demux # g_dec
          /\ lib.alive = {g_demux, g_dec}
    /\ (pc = "perform" /\ curl # "body") => lib.fed = {}
    /\ InBody =>
          /\ \A p \in lib.fed : p[1] \in {g_demux, g_dec} /\ p[2] = conn
          /\ \A i \in 1..Len(gh.log) : \A d \in 1..Len(gh.log[i].disp) :
                /\ gh.log[i].disp[d].demux = g_demux
                /\ gh.log[i].disp[d].dec = g_dec

\* the second connection has fed the third pair of instances
C4_Witness ==
    /\ InBody
    /\ conn = 2
    /\ g_demux > 4
    /\ <<g_demux, 2>> \in lib.fed
    /\ <<g_dec, 2>> \in lib.fed

---------------------------------------------------------------------------
(* The packet filter *)

\* the packets C5 is about, by the five octets h of their header
C5_Filtered(h) ==
    \/ h[1] # 71
    \/ h[2] \div 128 = 1
    \/ (h[2] % 32) * 256 + h[3] # g_pid
    \/ (h[4] \div 16) % 2 = 0
    \/ ((h[4] \div 32) % 2 = 1 /\ 5 + h[5] >= 188)

\* C5: a packet with a wrong sync octet, the transport-error bit, another
\* PID, no payload flag or an adaptation field that leaves no payload
\* (5 + octet 4 >= 188) leaves octets, length and target of the accumulator
\* as they are and dispatches nothing.
C5_FilteredPacketsHaveNoEffect ==
    \A i \in 1..Len(gh.log) :
        C5_Filtered(gh.log[i].hdr) =>
            /\ gh.log[i].kind = "drop"
            /\ gh.log[i].same
            /\ gh.log[i].len1 = gh.log[i].len0
            /\ gh.log[i].tgt1 = gh.log[i].tgt0
            /\ gh.log[i].disp = <<>>

\* a packet with the payload flag clear arrives while a bounded PES is open
C5_Witness ==
    /\ InBody
    /\ \E i \in 1..Len(gh.log) :
          /\ C5_Filtered(gh.log[i].hdr)
          /\ (gh.log[i].hdr[4] \div 16) % 2 = 0
          /\ gh.log[i].len0 > 0
          /\ gh.log[i].tgt0 > 0

---------------------------------------------------------------------------
(* PES reassembly.  An entry e of gh.log tells what process_ts_packet did   *)
(* with one packet; e.disp are its dispatch_pes calls in order.             *)

Entries == {gh.log[i] : i \in 1..Len(gh.log)}

Dispatches(e) == {e.disp[d] : d \in 1..Len(e.disp)}

\* the append of entry e completed the accumulator: the call of line 310
DispatchedByAppend(e) ==
    /\ e.disp # <<>>
    /\ e.disp[Len(e.disp)].why = "bound"
    /\ Len(e.disp[Len(e.disp)].acc) = e.appended

\* C6 as stated: after an append to an accumulator that starts with a PUSI
\* packet and holds the length field L > 0, the PES is dispatched by that
\* append exactly if the length has reached 6 + L, however the PES is
\* spread over packets.
C6_AsStated ==
    \A e \in Entries :
        (e.kind = "append" /\ e.start > 0 /\ e.field > 0) =>
            (DispatchedByAppend(e) <=> e.appended >= 6 + e.field)

\* C6: the same for a PES whose PUSI packet carries at least the six octets
\* up to the length field.
C6_BoundedDispatchedWhenComplete ==
    \A e \in Entries :
        (e.kind = "append" /\ e.start >= 6 /\ e.field > 0) =>
            (DispatchedByAppend(e) <=> e.appended >= 6 + e.field)

\* a bounded PES spread over two packets is dispatched by the second append
C6_Witness ==
    /\ InBody
    /\ \E e \in Entries :
          /\ e.kind = "append" /\ e.start >= 6 /\ e.field > 0
          /\ e.len0 > 0
          /\ e.hdr[2] \div 64 = 0
          /\ e.appended = 6 + e.field
          /\ DispatchedByAppend(e)

\* C7: an accumulator that starts with a PUSI packet and holds the length
\* field 0 is dispatched only by a PUSI packet on the configured PID, never
\* by an append; and a PUSI packet dispatches what is accumulated.
C7_UnboundedDispatchedOnPusi ==
    \A e \in Entries :
        /\ \A d \in Dispatches(e) :
              (d.head > 0 /\ LengthField(d.acc) = 0) =>
                  /\ d.why = "pusi"
                  /\ (e.hdr[2] \div 64) % 2 = 1
                  /\ (e.hdr[2] % 32) * 256 + e.hdr[3] = g_pid
        /\ (e.kind = "append" /\ e.start > 0 /\ e.field = 0) =>
              ~DispatchedByAppend(e)
        /\ (~C5_Filtered(e.hdr) /\ (e.hdr[2] \div 64) % 2 = 1 /\ e.len0 > 0) =>
              /\ e.disp # <<>>
              /\ e.disp[1].why = "pusi"
              /\ Len(e.disp[1].acc) = e.len0

\* an unbounded PES of more than one packet is dispatched by the next PUSI
C7_Witness ==
    /\ InBody
    /\ \E e \in Entries : \E d \in Dispatches(e) :
          /\ d.head > 0 /\ LengthField(d.acc) = 0 /\ Len(d.acc) >= 6
          /\ Len(d.acc) > TS_PACKET_SIZE
          /\ d.why = "pusi"

\* C8: a payload that would take the accumulator beyond MAX_PES_SIZE is not
\* stored, length and target become 0 and nothing is dispatched in that
\* step; and nothing of the oversized PES is forwarded later: what is
\* accumulated between the overflow and the next PUSI packet is not
\* forwarded to the VBI bridge.
C8_OverflowDiscardsPes ==
    \A e \in Entries :
        /\ e.kind = "overflow" =>
              /\ e.len0 + (TS_PACKET_SIZE - 4) > MAX_PES_SIZE
              /\ e.len1 = 0 /\ e.tgt1 = 0
              /\ e.disp = <<>>
        /\ \A d \in Dispatches(e) : d.tail => ~d.fwd

\* C9 as stated: the accumulator length decreases from one packet to the
\* next only in a step with a dispatch, and every dispatch is followed in
\* its step by the reset of length and target to 0.
C9_AsStated ==
    \A e \in Entries :
        /\ e.len1 < e.len0 => e.disp # <<>>
        /\ \A d \in Dispatches(e) : d.left = <<0, 0>>

\* C9: the accumulator length decreases from one packet to the next only in
\* a step with a dispatch or with the overflow reset, and every dispatch is
\* followed in its step by the reset of length and target to 0, before the
\* payload of the packet that caused it is appended.
C9_LengthDropsOnlyAtReset ==
    \A e \in Entries :
        /\ e.len1 < e.len0 => (e.disp # <<>> \/ e.kind = "overflow")
        /\ e.kind = "overflow" => e.len1 = 0
        /\ e.disp = <<>> /\ e.kind # "overflow" => e.len1 >= e.len0
        /\ \A d \in Dispatches(e) : d.left = <<0, 0>>
        /\ (e.disp # <<>> /\ e.disp[Len(e.disp)].why = "bound") =>
              (e.len1 = 0 /\ e.tgt1 = 0)
        /\ (e.disp # <<>> /\ e.disp[Len(e.disp)].why = "pusi") =>
              e.len1 = e.appended

\* the length grows, drops at the dispatch a PUSI packet causes, and drops
\* at an overflow reset without any dispatch
C9_Witness ==
    /\ InBody
    /\ \E e \in Entries :
          /\ e.kind = "overflow" /\ e.len0 > 0 /\ e.len1 = 0 /\ e.disp = <<>>
    /\ \E e \in Entries :
          /\ e.disp = <<>> /\ e.len0 > 0 /\ e.len1 > e.len0

\* C10: dispatch_pes forwards exactly when the accumulator has at least 9
\* octets, starts with 00 00 01 and 9 + N is less than its length, N being
\* octet 8; what it forwards then are the octets 9 + N .. length - 1, and
\* they go to the demux; otherwise nothing is forwarded.
C10_ForwardedPayload ==
    \A e \in Entries : \A d \in Dispatches(e) :
        /\ d.fwd <=> /\ Len(d.acc) >= 9
                     /\ d.acc[1] = 0 /\ d.acc[2] = 0 /\ d.acc[3] = 1
                     /\ 9 + d.acc[9] < Len(d.acc)
        /\ d.fwd => /\ Len(d.data) = Len(d.acc) - (9 + d.acc[9])
                    /\ \A k \in 1..Len(d.data) : d.data[k] = d.acc[9 + d.acc[9] + k]
                    /\ <<d.demux, conn>> \in lib.fed
        /\ ~d.fwd => d.data = <<>>

\* a PES with five octets of optional header fields is forwarded
C10_Witness ==
    /\ InBody
    /\ \E e \in Entries : \E d \in Dispatches(e) :
          /\ d.fwd
          /\ d.acc[9] = 5
          /\ Len(d.data) = Len(d.acc) - 14
          /\ Len(d.data) > 0

---------------------------------------------------------------------------
(* The supervisor *)

\* C18: main leaves the reconnect loop only at the loop test or after
\* curl_easy_perform with the running flag cleared, or when zvbi_init
\* failed; while the transfer runs, whatever arrives and however it ends,
\* main stays in curl_easy_perform or goes on to the test behind it, and
\* the process exits only through the shutdown behind the loop.
C18_LoopLeftOnlyOnSignalOrInit ==
    [][ /\ (pc # "shutdown" /\ pc' = "shutdown") =>
              \/ (pc \in {"loop", "ended"} /\ g_running = 0)
              \/ pc = "zvbi"
        /\ pc = "perform" => pc' \in {"perform", "ended"}
        /\ (pc \in {"loop", "reset", "zvbi", "perform", "ended", "sleep"}
              /\ pc' # pc) => pc' # "exit"
        /\ (pc = "ended" /\ g_running = 1) => pc' \in {"ended", "sleep"}
      ]_vars

\* a second connection is under way after dropped packets and an overflow
\* on the first one, the process still running
C18_Witness ==
    /\ InBody
    /\ conn = 2
    /\ g_running = 1
    /\ sent.pkts > 0

\* C19 as stated: main returns 0 only when the running flag was cleared by
\* a signal; every other way of terminating returns a non-zero code.
C19_ZeroOnlyOnSignal ==
    (pc = "exit" /\ exit_code = 0) => g_running = 0

\* C20 as stated: with an argument count other than four, a PID outside
\* 1..8190 or a port outside 1..65535 the process exits non-zero, and it
\* neither creates the socket nor opens a connection.
C20_BadArgumentsRejected ==
    (args.argc # 5 \/ args.pid \notin 1..8190 \/ args.port \notin 1..65535) =>
        /\ pc \in {"main", "exit"}
        /\ pc = "exit" => exit_code # 0
        /\ g_udp_fd = -1
        /\ conn = 0


---------------------------------------------------------------------------
(* The page serialiser: reading a datagram back *)

IsSpace(c) == c \in {32, 9, 10, 13}
IsDigit(c) == c \in 48..57
IsHex(c) == c \in 48..57 \/ c \in 65..70 \/ c \in 97..102
HexValue(c) == IF c <= 57 THEN c - 48 ELSE IF c <= 70 THEN c - 55 ELSE c - 87

Top(st) == IF st = <<>> THEN "none" ELSE st[Len(st)]
Pop(st) == SubSeq(st, 1, Len(st) - 1)

\* a JSON reader (RFC 8259 without fractions, exponents and literals): m is
\* what it expects, st the open containers, items the strings that are
\* elements of an array inside the top-level object, as <<first, last>>
JsonStart ==
    [m |-> "val", st |-> <<>>, i |-> 0, key |-> FALSE, from |-> 0,
     items |-> <<>>, commas |-> 0]

\* after a value: a comma, the end of the container, or white space
JsonAfter(q, c) ==
    IF IsSpace(c) THEN [q EXCEPT !.m = "aft"]
    ELSE IF c = 44 /\ Top(q.st) = "o" THEN [q EXCEPT !.m = "key1"]
    ELSE IF c = 44 /\ Top(q.st) = "a"
         THEN [q EXCEPT !.m = "val",
                        !.commas = IF q.st = <<"o", "a">> THEN @ + 1 ELSE @]
    ELSE IF c = 125 /\ Top(q.st) = "o" THEN [q EXCEPT !.m = "aft", !.st = Pop(@)]
    ELSE IF c = 93 /\ Top(q.st) = "a" THEN [q EXCEPT !.m = "aft", !.st = Pop(@)]
    ELSE [q EXCEPT !.m = "bad"]

JsonValue(q, c) ==
    IF IsSpace(c) THEN q
    ELSE IF c = 34 THEN [q EXCEPT !.m = "str", !.key = FALSE, !.from = q.i + 1]
    ELSE IF c = 123 THEN [q EXCEPT !.m = "key", !.st = Append(@, "o")]
    ELSE IF c = 91 THEN [q EXCEPT !.m = "val0", !.st = Append(@, "a")]
    ELSE IF c = 45 THEN [q EXCEPT !.m = "neg"]
    ELSE IF c = 48 THEN [q EXCEPT !.m = "int0"]
    ELSE IF c \in 49..57 THEN [q EXCEPT !.m = "int"]
    ELSE IF c = 93 /\ q.m = "val0" THEN [q EXCEPT !.m = "aft", !.st = Pop(@)]
    ELSE [q EXCEPT !.m = "bad"]

JsonString(q, c) ==
    IF c = 34
    THEN IF q.key THEN [q EXCEPT !.m = "col"]
         ELSE [q EXCEPT !.m = "aft",
                        !.items = IF q.st = <<"o", "a">>
                                  THEN Append(@, <<q.from, q.i - 1>>) ELSE @]
    ELSE IF c = 92 THEN [q EXCEPT !.m = "esc"]
    ELSE IF c < 32 THEN [q EXCEPT !.m = "bad"]
    ELSE q

JsonStep(q0, c) ==
    LET q == [q0 EXCEPT !.i = @ + 1]
    IN  CASE q.m = "bad" -> q
          [] q.m = "str" -> JsonString(q, c)
          [] q.m = "esc" ->
               IF c \in {34, 92, 47, 98, 102, 110, 114, 116} THEN [q EXCEPT !.m = "str"]
               ELSE IF c = 117 THEN [q EXCEPT !.m = "u1"]
               ELSE [q EXCEPT !.m = "bad"]
          [] q.m \in {"u1", "u2", "u3", "u4"} ->
               IF IsHex(c)
               THEN [q EXCEPT !.m = CASE q.m = "u1" -> "u2" [] q.m = "u2" -> "u3"
                                       [] q.m = "u3" -> "u4" [] OTHER -> "str"]
               ELSE [q EXCEPT !.m = "bad"]
          [] q.m = "neg" ->
               IF c = 48 THEN [q EXCEPT !.m = "int0"]
               ELSE IF c \in 49..57 THEN [q EXCEPT !.m = "int"]
               ELSE [q EXCEPT !.m = "bad"]
          [] q.m = "int" -> IF IsDigit(c) THEN q ELSE JsonAfter(q, c)
          [] q.m \in {"int0", "aft"} -> JsonAfter(q, c)
          [] q.m \in {"val", "val0"} -> JsonValue(q, c)
          [] q.m \in {"key", "key1"} ->
               IF IsSpace(c) THEN q
               ELSE IF c = 34 THEN [q EXCEPT !.m = "str", !.key = TRUE, !.from = q.i + 1]
               ELSE IF c = 125 /\ q.m = "key" THEN [q EXCEPT !.m = "aft", !.st = Pop(@)]
               ELSE [q EXCEPT !.m = "bad"]
          [] q.m = "col" ->
               IF IsSpace(c) THEN q
               ELSE IF c = 58 THEN [q EXCEPT !.m = "val"]
               ELSE [q EXCEPT !.m = "bad"]

\* JsonStep applied to the octets s[lo..hi] in order, from q
RECURSIVE JsonRead(_, _, _, _)
JsonRead(q, s, lo, hi) ==
    IF lo > hi THEN q
    ELSE IF lo = hi THEN JsonStep(q, s[lo])
    ELSE CHOOSE r \in { JsonRead(a, s, (lo + hi) \div 2 + 1, hi) :
                        a \in {JsonRead(q, s, lo, (lo + hi) \div 2)} } : TRUE

Json(d) == JsonRead(JsonStart, d, 1, Len(d))

\* the octets d are one JSON value
Parsed(q) == q.m \in {"aft", "int", "int0"} /\ q.st = <<>>

Item(d, q, k) == SubSeq(d, q.items[k][1], q.items[k][2])

\* the octets a JSON string stands for (escapes of ASCII characters)
UnescapeStep(q, c) ==
    CASE q.m = "bad" -> q
      [] q.m = "raw" ->
           IF c = 92 THEN [q EXCEPT !.m = "esc"]
           ELSE IF c = 34 \/ c < 32 THEN [q EXCEPT !.m = "bad"]
           ELSE [q EXCEPT !.out = Append(@, c)]
      [] q.m = "esc" ->
           CASE c \in {34, 92, 47} -> [q EXCEPT !.m = "raw", !.out = Append(@, c)]
             [] c = 110 -> [q EXCEPT !.m = "raw", !.out = Append(@, 10)]
             [] c = 114 -> [q EXCEPT !.m = "raw", !.out = Append(@, 13)]
             [] c = 116 -> [q EXCEPT !.m = "raw", !.out = Append(@, 9)]
             [] c = 98 -> [q EXCEPT !.m = "raw", !.out = Append(@, 8)]
             [] c = 102 -> [q EXCEPT !.m = "raw", !.out = Append(@, 12)]
             [] c = 117 -> [q EXCEPT !.m = "u", !.n = 0, !.v = 0]
             [] OTHER -> [q EXCEPT !.m = "bad"]
      [] q.m = "u" ->
           IF ~IsHex(c) THEN [q EXCEPT !.m = "bad"]
           ELSE IF q.n < 3 THEN [q EXCEPT !.n = @ + 1, !.v = @ * 16 + HexValue(c)]
           ELSE IF q.v * 16 + HexValue(c) < 128
                THEN [q EXCEPT !.m = "raw", !.out = Append(@, q.v * 16 + HexValue(c))]
                ELSE [q EXCEPT !.m = "bad"]

\* UnescapeStep applied to the octets s[lo..hi] in order, from q
RECURSIVE UnescapeRead(_, _, _, _)
UnescapeRead(q, s, lo, hi) ==
    IF lo > hi THEN q
    ELSE IF lo = hi THEN UnescapeStep(q, s[lo])
    ELSE CHOOSE r \in { UnescapeRead(a, s, (lo + hi) \div 2 + 1, hi) :
                        a \in {UnescapeRead(q, s, lo, (lo + hi) \div 2)} } : TRUE

Unescape(s) ==
    UnescapeRead([m |-> "raw", out |-> <<>>, n |-> 0, v |-> 0], s, 1, Len(s))

\* a UTF-8 decoder (Unicode 15, table 3-7: no overlong forms, no surrogates):
\* need is the number of continuation octets outstanding, lo..hi the range of
\* the next one, out the codepoints decoded
Utf8Step(q, c) ==
    IF ~q.ok THEN q
    ELSE IF q.need = 0
    THEN CASE c < 128 -> [q EXCEPT !.out = Append(@, c)]
           [] c \in 194..223 -> [q EXCEPT !.need = 1, !.cp = c - 192, !.lo = 128, !.hi = 191]
           [] c = 224 -> [q EXCEPT !.need = 2, !.cp = 0, !.lo = 160, !.hi = 191]
           [] c \in 225..236 \/ c \in 238..239 ->
                [q EXCEPT !.need = 2, !.cp = c - 224, !.lo = 128, !.hi = 191]
           [] c = 237 -> [q EXCEPT !.need = 2, !.cp = 13, !.lo = 128, !.hi = 159]
           [] c = 240 -> [q EXCEPT !.need = 3, !.cp = 0, !.lo = 144, !.hi = 191]
           [] c \in 241..243 -> [q EXCEPT !.need = 3, !.cp = c - 240, !.lo = 128, !.hi = 191]
           [] c = 244 -> [q EXCEPT !.need = 3, !.cp = 4, !.lo = 128, !.hi = 143]
           [] OTHER -> [q EXCEPT !.ok = FALSE]
    ELSE IF c \in q.lo..q.hi
         THEN [q EXCEPT !.need = @ - 1, !.cp = @ * 64 + (c - 128), !.lo = 128, !.hi = 191,
                        !.out = IF q.need = 1 THEN Append(@, q.cp * 64 + (c - 128)) ELSE @]
         ELSE [q EXCEPT !.ok = FALSE]

\* Utf8Step applied to the octets s[lo..hi] in order, from q
RECURSIVE Utf8Read(_, _, _, _)
Utf8Read(q, s, lo, hi) ==
    IF lo > hi THEN q
    ELSE IF lo = hi THEN Utf8Step(q, s[lo])
    ELSE CHOOSE r \in { Utf8Read(a, s, (lo + hi) \div 2 + 1, hi) :
                        a \in {Utf8Read(q, s, lo, (lo + hi) \div 2)} } : TRUE

Utf8Decode(s) ==
    Utf8Read([ok |-> TRUE, need |-> 0, cp |-> 0, lo |-> 128, hi |-> 191,
              out |-> <<>>], s, 1, Len(s))

WellFormed(q) == q.ok /\ q.need = 0

\* s begins with p
StartsWith(s, p) == Len(s) >= Len(p) /\ SubSeq(s, 1, Len(p)) = p

EndsWith(s, p) == Len(s) >= Len(p) /\ SubSeq(s, Len(s) - Len(p) + 1, Len(s)) = p

\* the page event whose datagram udp.dgram is: the last event, if it was sent
Sent == udp.sends > 0 /\ udp.ev.type = "TTX_PAGE" /\ udp.ev.fetched

Teletext(grid) == grid.rows = 25 /\ grid.columns \in {40, 41}

\* what a cell shows: attribute cells, soft hyphen and mosaics show as a space
Shown(cp) == IF cp < 32 \/ cp = 173 \/ cp >= 60928 THEN 32 ELSE cp

\* the codepoints row (from 0) of the grid shows, without the trailing spaces
Line(grid, row) ==
    CHOOSE r \in
      { SubSeq(s, 1, CHOOSE n \in 0..Len(s) :
                        /\ n > 0 => s[n] # 32
                        /\ \A i \in (n + 1)..Len(s) : s[i] = 32) :
        s \in { [c \in 1..grid.columns |->
                   Shown(Cell(IF row = 0 THEN grid.head ELSE grid.body,
                              c - 1, grid.columns))] } } : TRUE

\* the UTF-8 octets of the codepoints s[lo..hi]
RECURSIVE Octets(_, _, _)
Octets(s, lo, hi) ==
    IF lo > hi THEN <<>>
    ELSE IF lo = hi THEN utf8_encode(s[lo])
    ELSE Octets(s, lo, (lo + hi) \div 2) \o Octets(s, (lo + hi) \div 2 + 1, hi)

---------------------------------------------------------------------------
(* The page serialiser: claims *)

Newlines(d) == Cardinality({i \in 1..Len(d) : d[i] = 10})

\* C11: every page event whose fetch succeeds causes exactly one sendto, to
\* the configured destination, carrying the record of that page alone (it
\* starts with the page's own header and, for a Teletext page, ends with ]}
\* and the only newline); an event whose fetch fails causes no sendto.
C11_OneDatagramPerPage ==
    [][udp'.events = udp.events + 1 =>
          IF udp'.ev.type = "TTX_PAGE" /\ udp'.ev.fetched
          THEN /\ udp'.sends = udp.sends + 1
               /\ udp'.to = g_dest
               /\ StartsWith(udp'.dgram,
                             Header(udp'.ev.pgno, udp'.ev.subno % 65536, udp'.ev.now))
               /\ Teletext(udp'.ev.grid) =>
                     /\ EndsWith(udp'.dgram, <<93, 125, 10>>)
                     /\ Newlines(udp'.dgram) = 1
          ELSE /\ udp'.sends = udp.sends
               /\ udp'.dgram = udp.dgram
      ]_vars

C11_Witness ==
    /\ udp.events = 2 /\ udp.sends = 2 /\ Sent
    /\ udp.ev.grid.body = "escape"

IsBcd(p) == (p \div 16) % 16 <= 9 /\ p % 16 <= 9
FromBcd(p) == (p \div 256) * 100 + ((p \div 16) % 16) * 10 + (p % 16)

\* C12: when the library reports the BCD number of a decimal page d in
\* 100..899, the "page" field of the datagram is the decimal number d.
C12_PageIsDecimal ==
    (Sent /\ IsBcd(udp.ev.pgno) /\ FromBcd(udp.ev.pgno) \in 100..899) =>
        StartsWith(udp.dgram, <<123, 34, 112, 97, 103, 101, 34, 58>>
                                \o Decimal(FromBcd(udp.ev.pgno)) \o <<44>>)

\* C13: the datagram of a Teletext page is one JSON value whose "lines" array
\* starts right after the header and holds exactly 25 strings, consecutive
\* ones separated by exactly one comma (24 in all), the last one followed by
\* ]} and one newline, whatever the cells hold.
C13_TwentyFiveLines ==
    (Sent /\ Teletext(udp.ev.grid)) =>
        \E q \in {Json(udp.dgram)} :
            /\ Parsed(q)
            /\ Len(q.items) = 25
            /\ q.commas = 24
            /\ q.items[1][1] =
                 Len(Header(udp.ev.pgno, udp.ev.subno % 65536, udp.ev.now)) + 2
            /\ \A k \in 1..24 :
                 /\ q.items[k + 1][1] = q.items[k][2] + 4
                 /\ SubSeq(udp.dgram, q.items[k][2] + 1, q.items[k][2] + 3) = <<34, 44, 34>>
            /\ Len(udp.dgram) = q.items[25][2] + 4
            /\ EndsWith(udp.dgram, <<34, 93, 125, 10>>)

C13_Witness ==
    /\ Sent /\ Teletext(udp.ev.grid)
    /\ udp.ev.grid.head = "escape" /\ udp.ev.grid.body = "escape"
    /\ Len(Json(udp.dgram).items) = 25

\* C14: in the datagram of a Teletext page every line is the row with each
\* cell below 0x20, equal to 0x00AD or at or above 0xEE00 shown as a space
\* and with the trailing spaces removed; no line ends with a space.
C14_SanitisedAndTrimmed ==
    (Sent /\ Teletext(udp.ev.grid)) =>
        \E q \in {Json(udp.dgram)} :
            /\ Len(q.items) = 25
            /\ \A k \in 1..25 :
                 \E item \in {Item(udp.dgram, q, k)}, line \in {Line(udp.ev.grid, k - 1)} :
                     /\ item # <<>> => item[Len(item)] # 32
                     /\ \E u \in {Unescape(item)} :
                          u.m = "raw" /\ u.out = Octets(line, 1, Len(line))

C14_Witness ==
    /\ Sent /\ Teletext(udp.ev.grid)
    /\ udp.ev.grid.head = "attribute" /\ udp.ev.grid.body = "attribute"
    /\ Len(Line(udp.ev.grid, 0)) < udp.ev.grid.columns - 4

\* what json_escape must make of the octets s[lo..hi] of a row: quote and
\* backslash preceded by a backslash, every other octet as it is
RECURSIVE Quoted(_, _, _)
Quoted(s, lo, hi) ==
    IF lo > hi THEN <<>>
    ELSE IF lo = hi THEN (IF s[lo] \in {34, 92} THEN <<92, s[lo]>> ELSE <<s[lo]>>)
    ELSE Quoted(s, lo, (lo + hi) \div 2) \o Quoted(s, (lo + hi) \div 2 + 1, hi)

\* octet strings with control characters, which no row of a page holds
EscapeProbes ==
    {<<10>>, <<13, 9>>, <<0, 31, 65, 8, 12, 27>>, <<34, 1, 92, 127>>, <<>>}

\* C15: json_escape writes quote and backslash as two-character escapes and
\* every other octet of a row unchanged and in order, writes no octet below
\* 0x20 (control characters become escapes that stand for them), and the
\* datagram of a Teletext page is one JSON value.
C15_EscapedAndParses ==
    /\ \A s \in EscapeProbes :
         \E e \in {json_escape(ROW_ESC_SIZE, s)} :
             /\ \A i \in 1..Len(e) : e[i] >= 32
             /\ Unescape(e).m = "raw" /\ Unescape(e).out = s
             /\ Parsed(Json(<<34>> \o e \o <<34>>))
    /\ (Sent /\ Teletext(udp.ev.grid)) =>
          \E q \in {Json(udp.dgram)} :
              /\ Parsed(q)
              /\ Len(q.items) = 25
              /\ \A k \in 1..25 :
                   \E item \in {Item(udp.dgram, q, k)},
                      row \in {Octets(Line(udp.ev.grid, k - 1), 1,
                                      Len(Line(udp.ev.grid, k - 1)))} :
                       /\ \A i \in 1..Len(item) : item[i] >= 32
                       /\ item = Quoted(row, 1, Len(row))

C15_Witness ==
    /\ Sent /\ Teletext(udp.ev.grid)
    /\ udp.ev.grid.head = "text" /\ udp.ev.grid.body = "escape"
    /\ \E i \in 1..(Len(udp.dgram) - 1) : udp.dgram[i] = 92 /\ udp.dgram[i + 1] = 92

\* C16: in the datagram of a Teletext page every line is well-formed UTF-8
\* that decodes to the codepoints the row shows, whatever 16-bit codepoints
\* the cells carry.
C16_LinesAreUtf8 ==
    (Sent /\ Teletext(udp.ev.grid)) =>
        \E q \in {Json(udp.dgram)} :
            /\ Len(q.items) = 25
            /\ \A k \in 1..25 :
                 \E u \in {Utf8Decode(Unescape(Item(udp.dgram, q, k)).out)} :
                     WellFormed(u) /\ u.out = Line(udp.ev.grid, k - 1)

\* C17: a datagram that is sent is complete: one JSON value with one line
\* per row of the page, each line the whole row, then ]} and a newline (a
\* page for which a bound check of the serialiser fails is not sent).
C17_NeverTruncated ==
    Sent =>
        \E q \in {Json(udp.dgram)} :
            /\ Parsed(q)
            /\ EndsWith(udp.dgram, <<93, 125, 10>>)
            /\ Len(q.items) = udp.ev.grid.rows
            /\ \A k \in 1..Len(q.items) :
                 \E line \in {Line(udp.ev.grid, k - 1)} :
                     Unescape(Item(udp.dgram, q, k)).out = Octets(line, 1, Len(line))

---------------------------------------------------------------------------
(* Opening the stream *)

\* C21: a response whose status is not 200 (a redirect included) fails the
\* opening of the stream: the write callback is handed octets only on a
\* connection whose GET was answered with 200, and no redirect is followed.
C21_Non200FailsOpen ==
    /\ gh.rx_len > 0 => sent.status = 200
    /\ sent.hops = 0

---------------------------------------------------------------------------
(* Shutdown on a signal *)

\* C22: once a signal has set the running flag to false, no chunk is passed
\* to TS packet processing (the callback is not counted as a call, no packet
\* is emitted, carry, accumulator and what libzvbi was fed stay as they
\* are); the read that returns next (a chunk, the close of the server or a
\* read error) ends the transfer, after which main leaves the loop without
\* sleeping, releases decoder, demux and UDP socket, and terminates with 0.
C22_SignalStopsProcessing ==
    [][ g_running = 0 =>
          /\ g_running' = 0
          /\ gh'.calls <= gh.calls
          /\ gh'.n_emitted <= gh.n_emitted
          /\ lib'.fed \subseteq lib.fed
          /\ InBody => /\ pipeline' = pipeline
                       /\ curl' # curl => curl' = "idle" /\ pc' = "ended"
          /\ pc = "ended" => pc' \in {"ended", "shutdown"}
          /\ pc = "shutdown" /\ pc' # pc =>
                /\ pc' = "exit"
                /\ exit_code' = 0
                /\ g_dec \notin lib'.alive
                /\ g_demux \notin lib'.alive
                /\ ~udp'.open ]_vars

\* a chunk arrived after the signal and was refused, and the process has
\* terminated with everything released
C22_Witness ==
    /\ pc = "exit"
    /\ g_running = 0
    /\ gh.refused
    /\ sent.single = 1
    /\ exit_code = 0
    /\ lib.alive = {}
    /\ ~udp.open
    /\ g_carry_len = 0 /\ g_pes_len = 0 /\ lib.fed = {}

---------------------------------------------------------------------------
(* Send failures *)

\* C23: a sendto that fails changes nothing but the socket's record: the
\* accumulation state, the library handles, the transfer and the control
\* state of main are as before, so the transfer goes on; and the next page
\* event that is fetched is sent with a sendto of its own, to the same
\* destination, carrying that event's datagram.
C23_SendFailureIsNotFatal ==
    [][ udp'.events = udp.events + 1 =>
          /\ udp'.errors > udp.errors =>
                /\ UNCHANGED <<pc, exit_code, g_running, pipeline, handles, network>>
                /\ InBody
                /\ udp'.open
                /\ udp'.failed
          /\ (udp.failed /\ udp'.ev.type = "TTX_PAGE" /\ udp'.ev.fetched) =>
                /\ udp'.sends = udp.sends + 1
                /\ udp'.to = g_dest
                /\ StartsWith(udp'.dgram,
                              Header(udp'.ev.pgno, udp'.ev.subno % 65536, udp'.ev.now))
                /\ udp'.failed <=> udp'.errors = udp.errors + 1 ]_vars

\* a sendto failed, and the datagram of the next page was sent
C23_Witness ==
    /\ InBody
    /\ udp.events = 2
    /\ udp.errors = 1
    /\ udp.sends = 2
    /\ ~udp.failed
    /\ udp.ev.pgno = Bcd(199)
    /\ StartsWith(udp.dgram, Header(Bcd(199), 0, udp.ev.now))

---------------------------------------------------------------------------
(* Chunks of 188 * K + 1 octets *)

\* gh.sizes are the sizes of the chunks of this connection (SpecFramer)
OneOver(n) == n % TS_PACKET_SIZE = 1

AllOneOver(sizes) == \A i \in 1..Len(sizes) : OneOver(sizes[i])

\* a step in which curl_write_cb processes a chunk
ChunkStep == InBody /\ gh'.calls = gh.calls + 1

\* C24 as stated: in a sequence of chunks that each have 188 * K + 1 octets,
\* every chunk makes the framer emit exactly K packets and leaves exactly 1
\* octet in the carry buffer.
C24_AsStated ==
    [][ (ChunkStep /\ AllOneOver(gh'.sizes)) =>
          \E size \in {gh'.rx_len - gh.rx_len} :
              /\ gh'.n_emitted - gh.n_emitted = size \div TS_PACKET_SIZE
              /\ g_carry_len' = 1 ]_vars

\* C24 (amended): a chunk of 188 * K + 1 octets that arrives when the carry
\* buffer holds c octets makes the framer emit K packets and leaves c + 1
\* octets in the carry buffer if c < 187, and makes it emit K + 1 packets
\* and leaves the carry buffer empty if c = 187; a chunk that arrives with
\* an empty carry buffer, as the first of a connection does, leaves 1 octet.
C24_OneMoreCarried ==
    [][ ChunkStep =>
          \E size \in {gh'.rx_len - gh.rx_len} :
              OneOver(size) =>
                /\ g_carry_len' = (g_carry_len + 1) % TS_PACKET_SIZE
                /\ gh'.n_emitted - gh.n_emitted =
                     size \div TS_PACKET_SIZE
                       + (IF g_carry_len = TS_PACKET_SIZE - 1 THEN 1 ELSE 0)
                /\ AllOneOver(gh'.sizes) => g_carry_len' = Len(gh'.sizes) ]_vars

\* the second of two chunks of 188 * K + 1 octets has left 2 octets
C24_Witness ==
    /\ InBody
    /\ gh.sizes = <<1, 189>>
    /\ g_carry_len = 2
    /\ gh.n_emitted = 1

---------------------------------------------------------------------------
(* The feed loop *)

\* C25: the loop of feed_pes_data ends with the call after which no octet is
\* left, and with the first call that slices no line and consumes no octet
\* in that call, whatever earlier calls on the same payload consumed; no
\* other call ends it.
C25_LoopEndsWithoutProgress ==
    [][ (feed.at = "loop" /\ feed'.calls = feed.calls + 1) =>
          (feed'.at = "done" <=>
             (feed'.rem = 0 \/ (feed'.lines = 0 /\ feed'.took = 0))) ]_vars

---------------------------------------------------------------------------
(* Order of the dispatches *)

PusiBit(hdr) == (hdr[2] \div 64) % 2

\* payloads of the packets the tuner sends with the header hdr
PayloadsOf(hdr) ==
    {SubSeq(pkt, PayloadOffset(pkt) + 1, TS_PACKET_SIZE) :
       pkt \in {q \in AllPackets : SubSeq(q, 1, 5) = hdr}}

\* C26: a PUSI packet that finds the accumulator non-empty dispatches the
\* old content, exactly as it was before the packet and without any octet
\* of the packet, and clears the accumulator before it stores its payload;
\* a packet causes at most two dispatches, and if two, first the previous
\* PES (by the PUSI) and then the packet's own bounded PES, which consists
\* of the payload of the packet alone.
C26_OldPesFirst ==
    [][ ChunkStep =>
          \A i \in 1..Len(gh'.log) : \E e \in {gh'.log[i]} :
              /\ Len(e.disp) <= 2
              /\ Len(e.disp) = 2 => e.disp[1].why = "pusi" /\ e.disp[2].why = "bound"
              /\ (~C5_Filtered(e.hdr) /\ PusiBit(e.hdr) = 1 /\ e.len0 > 0) =>
                    /\ e.disp # <<>>
                    /\ e.disp[1].why = "pusi"
              /\ \A k \in 1..Len(e.disp) : \E d \in {e.disp[k]} :
                    /\ d.left = <<0, 0>>
                    /\ d.why = "pusi" =>
                          /\ k = 1
                          /\ PusiBit(e.hdr) = 1
                          /\ Len(d.acc) = e.len0
                          /\ i = 1 => d.acc = g_pes
                    /\ (d.why = "bound" /\ PusiBit(e.hdr) = 1) =>
                          /\ d.acc \in PayloadsOf(e.hdr)
                          /\ d.head = Len(d.acc) ]_vars

\* a PUSI packet has dispatched the previous PES and then its own
C26_Witness ==
    /\ InBody
    /\ \E e \in Entries :
          /\ Len(e.disp) = 2
          /\ e.len0 > 0
          /\ e.disp[1].why = "pusi"
          /\ Len(e.disp[1].acc) = e.len0
          /\ e.disp[2].why = "bound"
          /\ e.disp[2].acc \in PayloadsOf(e.hdr)
          /\ g_pes_len = 0

---------------------------------------------------------------------------
(* The reconnect loop *)

\* a step of main (not of the signal handler) with the running flag true
RunningStep == g_running = 1 /\ g_running' = 1 /\ pc' # pc

\* curl_easy_perform starts a connection attempt
AttemptStep == conn' = conn + 1

\* what precedes an attempt: carry and accumulator reset, new instances of
\* demux and decoder that have been fed nothing
ResetDone ==
    /\ g_carry_len = 0 /\ g_pes_len = 0 /\ g_pes_target = 0
    /\ g_demux # 0 /\ g_dec # 0
    /\ lib.alive = {g_demux, g_dec}
    /\ lib.fed = {}
    /\ gh.calls = 0

\* the steps of the loop between the end of an attempt and the next one,
\* but for the step that recreates the library handles
LoopOrder ==
    /\ (RunningStep /\ pc = "ended") => pc' = "sleep"
    /\ (RunningStep /\ pc = "sleep") => pc' = "loop"
    /\ (RunningStep /\ pc = "loop") => pc' = "reset"
    /\ (RunningStep /\ pc = "reset") =>
          /\ pc' = "zvbi"
          /\ g_carry_len' = 0 /\ g_pes_len' = 0 /\ g_pes_target' = 0
    /\ (pc' = "loop" /\ pc # "loop" /\ conn >= 1) => pc = "sleep"
    /\ (pc' = "perform" /\ pc # "perform") =>
          /\ pc = "zvbi"
          /\ g_demux' \notin lib.alive /\ g_dec' \notin lib.alive
    /\ AttemptStep =>
          /\ pc = "perform" /\ curl = "idle" /\ curl' = "connecting"
          /\ ResetDone
    /\ (pc = "perform" /\ curl = "idle" /\ g_running = 1 /\ g_running' = 1) =>
          AttemptStep

\* C27 as stated: while the running flag is true the end of a connection
\* attempt is followed by the delay, the reset of carry, accumulator and
\* library handles and a new attempt, in this order and in every case.
C27_AsStated ==
    [][ /\ LoopOrder
        /\ (RunningStep /\ pc = "zvbi" /\ conn >= 1) => pc' = "perform" ]_vars

\* C27 (amended): the same, unless the library handles cannot be recreated:
\* then main leaves the loop and no attempt follows.
C27_DelayThenResetThenAttempt ==
    [][ /\ LoopOrder
        /\ (RunningStep /\ pc = "zvbi" /\ conn >= 1) =>
              \/ pc' = "perform"
              \/ pc' = "shutdown" /\ conn' = conn
      ]_vars

\* the second attempt is under way, after data on the first
C27_Witness ==
    /\ pc = "perform"
    /\ curl = "connecting"
    /\ conn = 2
    /\ g_running = 1
    /\ ResetDone
    /\ \E i \in 1..TS_PACKET_SIZE : g_carry[i] # 0

---------------------------------------------------------------------------
(* Bounds of the accumulator *)

\* C28: the accumulator length is within 0 .. MAX_PES_SIZE in every state;
\* every memcpy into g_pes ends at or before MAX_PES_SIZE (it writes the
\* octets [appended - payload length, appended)); and a PUSI packet that
\* passes the filter always has its payload of 1 .. 184 octets stored, at
\* offset 0, whatever the accumulator held: it never takes the overflow
\* branch.
C28_AccumulatorInBounds ==
    /\ 0 <= g_pes_len /\ g_pes_len <= MAX_PES_SIZE
    /\ Len(g_pes) = g_pes_len
    /\ \A e \in Entries :
          /\ 0 <= e.len0 /\ e.len0 <= MAX_PES_SIZE
          /\ e.kind = "append" =>
                /\ 0 < e.appended /\ e.appended <= MAX_PES_SIZE
                /\ e.appended <= e.len0 + (TS_PACKET_SIZE - 4)
          /\ (~C5_Filtered(e.hdr) /\ PusiBit(e.hdr) = 1) =>
                /\ e.kind = "append"
                /\ e.appended = e.start
                /\ e.start >= 1 /\ e.start <= TS_PACKET_SIZE - 4
          /\ \A d \in Dispatches(e) : Len(d.acc) <= MAX_PES_SIZE

\* a PUSI packet arrived when its payload would not have fitted behind the
\* accumulated octets, and was stored
C28_Witness ==
    /\ InBody
    /\ \E e \in Entries :
          /\ PusiBit(e.hdr) = 1
          /\ e.len0 + e.start > MAX_PES_SIZE
          /\ e.kind = "append"
          /\ e.appended = e.start

---------------------------------------------------------------------------
(* Target and length *)

\* C29: whenever process_ts_packet has returned, a target > 0 comes with an
\* accumulator length that is > 0 and below the target, and an empty
\* accumulator comes with the target 0; so it is between the calls, at the
\* start of a connection and after every packet of a chunk.
C29_TargetAboveLength ==
    /\ g_pes_target > 0 => (0 < g_pes_len /\ g_pes_len < g_pes_target)
    /\ g_pes_len = 0 => g_pes_target = 0
    /\ \A e \in Entries :
          /\ e.tgt1 > 0 => (0 < e.len1 /\ e.len1 < e.tgt1)
          /\ e.len1 = 0 => e.tgt1 = 0
          /\ e.tgt0 > 0 => (0 < e.len0 /\ e.len0 < e.tgt0)
          /\ e.len0 = 0 => e.tgt0 = 0

\* a bounded PES is open, and the packet before it completed another
C29_Witness ==
    /\ InBody
    /\ g_pes_target > TS_PACKET_SIZE
    /\ 0 < g_pes_len /\ g_pes_len < g_pes_target
    /\ sent.pkts = 2
    /\ \E e \in Entries : e.tgt1 = g_pes_target /\ e.len1 = g_pes_len /\ e.len0 = 0

---------------------------------------------------------------------------
(* What the accumulator starts with *)

PayloadOf(pkt) == SubSeq(pkt, PayloadOffset(pkt) + 1, TS_PACKET_SIZE)

\* acc begins with the whole payload of one of the packets pkts
BeginsWith(acc, pkts) == \E pkt \in pkts : StartsWith(acc, PayloadOf(pkt))

\* C30: every content handed to dispatch_pes starts with the
\* payload of a PUSI packet; payloads of PUSI=0 packets that arrive while no
\* PES is open are never dispatched.
C30_DispatchedStartsWithPusi ==
    \A e \in Entries : \A d \in Dispatches(e) :
        /\ d.head > 0
        /\ BeginsWith(d.acc, PusiPackets)

---------------------------------------------------------------------------
(* The signal and the loop *)

\* C31 as stated: once the handler has set the running flag to false, main
\* neither recreates the library handles nor starts a connection attempt,
\* wherever in the loop the signal arrived.
C31_AsStated ==
    [][ g_running = 0 =>
          /\ ~AttemptStep
          /\ g_demux' = g_demux /\ g_dec' = g_dec ]_vars

\* C31 (amended): once the flag is false main enters no new iteration of the
\* loop: the loop test and the test behind curl_easy_perform lead to the
\* shutdown, and the flag stays false.  Only the iteration whose loop test
\* passed before the signal goes on: it resets, recreates the handles and
\* starts its one connection attempt.  Outside that iteration the handles
\* are created only by the zvbi_init of the startup.
C31_NoNewIteration ==
    [][ g_running = 0 =>
          /\ g_running' = 0
          /\ pc # "reset" => pc' # "reset"
          /\ (pc = "loop" /\ pc' # pc) => pc' = "shutdown"
          /\ (pc = "ended" /\ pc' # pc) => pc' = "shutdown"
          /\ (pc = "sleep" /\ pc' # pc) => pc' = "loop"
          /\ (pc = "reset" /\ pc' # pc) => pc' = "zvbi"
          /\ (pc = "zvbi" /\ pc' # pc) =>
                /\ pc' \in {"perform", "shutdown"}
                /\ g_demux' \notin lib.alive /\ g_dec' \notin lib.alive
          /\ (pc = "perform" /\ curl = "idle") => AttemptStep
          /\ AttemptStep => pc = "perform" /\ curl = "idle"
          /\ pc \notin {"init", "zvbi"} =>
                (g_demux' = g_demux /\ g_dec' = g_dec) ]_vars

\* the signal arrived in the second iteration after its loop test: the
\* handles are recreated and the connection attempt is about to start
C31_Witness ==
    /\ g_running = 0
    /\ pc = "perform"
    /\ curl = "idle"
    /\ conn = 1
    /\ lib.alive = {g_demux, g_dec}
    /\ g_demux # 0 /\ g_dec # 0

=============================================================================
